---- MODULE Spec2Model ----
(***************************************************************************)
(* Battery monitor core: the device registry and its diff                  *)
(* (crates/core/src/device_monitor.rs), the device records the sources     *)
(* build (crates/core/src/lib.rs, bluetooth.rs, usb.rs), the notification  *)
(* gate (crates/notifications/src/lib.rs) and the application that ties    *)
(* them together (crates/main/src/app.rs).                                 *)
(*                                                                         *)
(* Specifications:                                                         *)
(*   Spec      scan -> diff -> dispatch passes over bounded scan lists     *)
(*             whose records carry any last_seen stamp of Times;           *)
(*   SpecScan  the same passes with the scan lists built by the sources,   *)
(*             every record stamped with the wall clock at scan time;      *)
(*   SpecGate  the notification gate under send_notification, set_enabled, *)
(*             set_suppression_duration, clear_log and the passing of time;*)
(*   SpecLog   the notification log under send_notification, add_to_log,   *)
(*             clear_log and set_enabled, with a capacity of LogCapacity;  *)
(*   SpecScanAll  scan_all_devices over what the two sources can return;   *)
(*   SpecSched    one LinuxDeviceMonitor: subscribe, start_monitoring,     *)
(*             stop_monitoring, get_current_devices and refresh_devices    *)
(*             of the caller interleaved with the steps of the monitoring  *)
(*             loop, with at most MaxStarts successful starts;             *)
(*   SpecRestart  the same with up to MaxTasks successful starts;          *)
(*   SpecFiles    the passes with the scan lists built from what the       *)
(*             wireless stack and the two sysfs directories hold;          *)
(*   SpecBluetooth  BluetoothScanner::scan_devices over the outcomes of    *)
(*             the connection attempt and of the enumeration;              *)
(*   SpecSnapshot  get_current_devices beside passes whose diff runs one   *)
(*             loop iteration at a time under the registry lock;           *)
(*   SpecApp      BatteryMonitorApp: handle_device_event lock by lock      *)
(*             under the passes of the monitoring loop and of              *)
(*             perform_maintenance, with run, shutdown and update_config;  *)
(*   SpecConfig   the configuration under its setters and validate_config; *)
(*   SpecDrop     SpecSched with the owner dropping the stopped monitor.   *)
(***************************************************************************)
EXTENDS Integers, Sequences, FiniteSets, TLC

VARIABLES
    devices,      \* LinuxDeviceMonitor.devices: HashMap<String, Device>
    new_devices,  \* the Vec<Device> a scan returned, handed to update_device_list
    events,       \* the Vec<DeviceEvent> update_device_list returned
    before,       \* history: the registry as it was when the pass's diff began
    pc,           \* position of the pass: "idle", "scanned", "diffed"
    now,          \* SystemTime::now() of the scanning thread
    enabled,                 \* DesktopNotificationManager.enabled
    suppression_duration,    \* DesktopNotificationManager.suppression_duration
    notification_log,        \* DesktopNotificationManager.notification_log
    last_low_battery_alert,  \* DesktopNotificationManager.last_low_battery_alert
    last_connection_alert,   \* DesktopNotificationManager.last_connection_alert
    max_log_size,            \* DesktopNotificationManager.max_log_size
    clock,        \* SystemTime::now() as the gate reads it
    ret,          \* the call on the gate that led to this state, if one did
    hist,         \* history since the last clear_log: argument and outcome of
                  \* the last send, and per key the time of its last Sent outcome
    appended,     \* history (SpecLog): every record handed to the log since the
                  \* last clear_log, in the order of the calls
    bluetooth_result,  \* SpecScanAll: what bluetooth_scanner.scan_devices() returned
    usb_result,        \* SpecScanAll: what usb_scanner.scan_devices() returned
    scan_result,       \* SpecScanAll: what scan_all_devices returned, once it has
    callbacks,        \* LinuxDeviceMonitor.callbacks: the subscribers, in order
    monitoring_task,  \* LinuxDeviceMonitor.monitoring_task: Option<JoinHandle>
    shutdown_sender,  \* LinuxDeviceMonitor.shutdown_sender: Option<Sender>
    tasks,            \* the spawned monitoring loops, by task number
    caller,           \* the thread that calls the monitor's methods
    devices_lock,     \* owner of the StdMutex around `devices`, if it is locked
    sret,             \* the monitor method the caller called last and its result
    sources,          \* SpecFiles: what the wireless stack and the two directories
                      \* held when the pass's scan read them
    connection,       \* BluetoothScanner.connection: Option<Connection>
    bt_ret,           \* SpecBluetooth: the scan_devices call that led to this
                      \* state, if one did
    diff,             \* SpecSnapshot: the locals of update_device_list between
                      \* two iterations of its loops
    snapshot,         \* SpecSnapshot: the list get_current_devices returned last
    committed,        \* SpecSnapshot history: the registry contents as they were
                      \* before the first pass and after each complete pass
    app_devices,      \* BatteryMonitorApp.devices: HashMap<String, Device>
    config,           \* BatteryMonitorApp.config: the notification settings
    app_locks,        \* owners of the Mutexes around BatteryMonitorApp.devices,
                      \* the config and the callback's notification manager
    app_threads,      \* SpecApp: the thread that owns the application and the
                      \* monitoring loops, each with the locals of its pass and,
                      \* as history, what the registry held when its diff began
                      \* if the application's map held the same
    current_loop,     \* SpecApp: the loop device_monitor.monitoring_task refers to
    handled,          \* SpecApp: the event whose handling ended in the step that
                      \* led to this state, with the sends it issued
    is_running,       \* BatteryMonitorApp.is_running: Mutex<bool>
    managers,         \* the enabled flag and the suppression duration of
                      \* BatteryMonitorApp.notification_manager and of the
                      \* callback_notification_manager the handler sends through
    app_ret,          \* SpecApp: the call on the application that returned last
                      \* and its result
    cfg_ret           \* SpecConfig: the call on the configuration that led to
                      \* this state, if one did

regVars  == <<devices, new_devices, events, before, pc, now>>
gateVars == <<enabled, suppression_duration, notification_log,
              last_low_battery_alert, last_connection_alert, max_log_size,
              clock, ret, hist>>
logVars  == <<appended>>
scanAllVars == <<bluetooth_result, usb_result, scan_result>>
schedVars == <<callbacks, monitoring_task, shutdown_sender, tasks, caller,
               devices_lock, sret>>
snapVars == <<diff, snapshot, committed>>
appVars == <<app_devices, config, app_locks, app_threads, current_loop, handled,
             is_running, managers, app_ret>>
extVars == <<cfg_ret>>
ioVars == <<sources, connection, bt_ret, snapVars, appVars, extVars>>
vars == <<regVars, gateVars, logVars, scanAllVars, schedVars, ioVars>>

(***************************************************************************)
(* Bounds                                                                  *)
(***************************************************************************)
\* last_seen stamps and the scanning thread's clock range over 0..MaxTime
MaxTime == 1

\* the gate's clock ranges over 0..MaxClock
MaxClock == 2

\* set_suppression_duration is called with 1..MaxDuration clock units
MaxDuration == 2

\* max_log_size (1000 in DesktopNotificationManager::new), scaled down
MaxLogSize == 1

\* max_log_size scaled down for SpecLog, where the order of the records kept
\* is the subject
LogCapacity == 2

\* SpecLog hands at most MaxAppended records to the log between two clear_log
MaxAppended == 3

\* SpecSched lets start_monitoring succeed at most MaxStarts times
MaxStarts == 1

\* SpecRestart lets start_monitoring succeed at most MaxTasks times; the
\* tasks are numbered 1..MaxTasks in the order they are spawned
MaxTasks == 2

\* SpecSched registers at most MaxSubscribers subscribers
MaxSubscribers == 2

\* SpecBluetooth calls scan_devices at most MaxScans times
MaxScans == 4

\* SpecSnapshot runs at most MaxPasses passes
MaxPasses == 2

\* Duration::from_secs(300) of DesktopNotificationManager::new; the gate's
\* clock counts units of 150 s
DefaultSuppressionDuration == 2

Times == 0..MaxTime

(***************************************************************************)
(* Option<T>                                                               *)
(***************************************************************************)
None == <<>>
Some(x) == <<x>>
IsSome(o) == o # None
Unwrap(o) == o[1]

(***************************************************************************)
(* Device records (crates/core/src/lib.rs)                                 *)
(***************************************************************************)
BtId == "/org/bluez/hci0/dev_AA"
PsId == "power_supply_hid-battery"
DeviceIds == {BtId, PsId}

(***************************************************************************)
(* Result<T, E>                                                            *)
(***************************************************************************)
Ok(v) == [ok |-> TRUE, value |-> v]
Err(e) == [ok |-> FALSE, error |-> e]

\* Names the enumerations report, with the lower-case words each contains.
NameWords ==
    [n \in {"MX Mouse", "Galaxy Buds", "HID Battery", "hid-battery", "1-1",
             "BAT0"} |->
        CASE n = "MX Mouse"    -> {"mouse"}
          [] n = "Galaxy Buds" -> {"buds"}
          [] n = "hid-battery" -> {"hid"}
          [] OTHER             -> {}]

Names == DOMAIN NameWords

\* name_lower.contains(word)
NameContains(name, word) == word \in NameWords[name]

detect_device_type(device_name, device_class) ==
    IF device_class = Some(9600) THEN "Mouse"            \* 0x002580
    ELSE IF device_class = Some(9536) THEN "Keyboard"    \* 0x002540
    ELSE IF device_class = Some(2360324) THEN "Headphones" \* 0x240404
    ELSE IF NameContains(device_name, "mouse") THEN "Mouse"
    ELSE IF NameContains(device_name, "keyboard") THEN "Keyboard"
    ELSE IF NameContains(device_name, "headphone")
            \/ NameContains(device_name, "headset") THEN "Headphones"
    ELSE IF NameContains(device_name, "buds")
            \/ NameContains(device_name, "airpods") THEN "Buds"
    ELSE IF NameContains(device_name, "phone")
            \/ NameContains(device_name, "mobile") THEN "Mobile"
    ELSE IF NameContains(device_name, "tablet")
            \/ NameContains(device_name, "ipad") THEN "Tablet"
    ELSE "Unknown"

\* Device::with_id ignoring the id it is given and generating one per call
with_id_regenerated(id, name, device_type, connection_type, t) ==
    [id |-> "uuid-" \o ToString(t), name |-> name, device_type |-> device_type,
     connection_type |-> connection_type, battery_level |-> None,
     connection_status |-> "Disconnected", last_seen |-> t]

\* Device::with_id, called at time t
with_id(id, name, device_type, connection_type, t) ==
    [id |-> id, name |-> name, device_type |-> device_type,
     connection_type |-> connection_type, battery_level |-> None,
     connection_status |-> "Disconnected", last_seen |-> t]

\* Device::update_battery, called at time t
update_battery(device, level, t) ==
    [device EXCEPT !.battery_level = level, !.last_seen = t]

\* Device::set_connected, called at time t
set_connected(device, connected, t) ==
    [device EXCEPT !.connection_status =
                       IF connected THEN "Connected" ELSE "Disconnected",
                   !.last_seen = t]

(***************************************************************************)
(* DeviceEvent                                                             *)
(***************************************************************************)
DeviceAdded(device)       == [type |-> "DeviceAdded", device |-> device]
DeviceUpdated(device)     == [type |-> "DeviceUpdated", device |-> device]
DeviceRemoved(id)         == [type |-> "DeviceRemoved", id |-> id]
BatteryChanged(id, level) == [type |-> "BatteryChanged", id |-> id, level |-> level]

\* The device id an event is about.
EventId(e) ==
    IF e.type \in {"DeviceAdded", "DeviceUpdated"} THEN e.device.id ELSE e.id

(***************************************************************************)
(* HashMap<String, Device>                                                 *)
(***************************************************************************)
EmptyMap == [x \in {} |-> None]

MapInsert(m, k, v) == [x \in DOMAIN m \cup {k} |-> IF x = k THEN v ELSE m[x]]

MapRemove(m, k) == [x \in DOMAIN m \ {k} |-> m[x]]

\* Every order in which a HashMap may yield the keys of S.
Orders(S) ==
    {s \in [1..Cardinality(S) -> S] : \A i, j \in DOMAIN s : i # j => s[i] # s[j]}

(***************************************************************************)
(* update_device_list (crates/core/src/device_monitor.rs)                  *)
(* The accumulator acc is [devices, events]: the locked map and the        *)
(* events vector as the for loop leaves them after each element.           *)
(***************************************************************************)
\* existing_device != &device: derived PartialEq over all seven fields
DeviceNe(existing_device, device) == existing_device # device

\* BatteryEvents pushing BatteryChanged for every present level, changed or not
BatteryEventsWheneverPresent(existing_device, device) ==
    IF IsSome(device.battery_level)
    THEN <<BatteryChanged(device.id, Unwrap(device.battery_level))>>
    ELSE <<>>

\* the events pushed for a battery change of a tracked device
BatteryEvents(existing_device, device) ==
    IF existing_device.battery_level # device.battery_level
       /\ IsSome(device.battery_level)
    THEN <<BatteryChanged(device.id, Unwrap(device.battery_level))>>
    ELSE <<>>

\* UpdateExisting without the `existing_device != &device` test
UpdateExistingUnguarded(acc, existing_device, device) ==
    [devices |-> MapInsert(acc.devices, device.id, device),
     events  |-> acc.events \o BatteryEvents(existing_device, device)
                            \o <<DeviceUpdated(device)>>]

\* UpdateExisting pushing DeviceUpdated before BatteryChanged
UpdateExistingUpdatedFirst(acc, existing_device, device) ==
    IF DeviceNe(existing_device, device)
    THEN [devices |-> MapInsert(acc.devices, device.id, device),
          events  |-> acc.events \o <<DeviceUpdated(device)>>
                                 \o BatteryEvents(existing_device, device)]
    ELSE acc

\* the Some(existing_device) arm of the match
UpdateExisting(acc, existing_device, device) ==
    IF DeviceNe(existing_device, device)
    THEN [devices |-> MapInsert(acc.devices, device.id, device),
          events  |-> acc.events \o BatteryEvents(existing_device, device)
                                 \o <<DeviceUpdated(device)>>]
    ELSE acc

\* InsertNew falling through into the update arm's push
InsertNewAlsoUpdated(acc, device) ==
    [devices |-> MapInsert(acc.devices, device.id, device),
     events  |-> acc.events \o <<DeviceAdded(device), DeviceUpdated(device)>>]

\* InsertNew pushing BatteryChanged for the level the new device reports
InsertNewWithBatteryChanged(acc, device) ==
    [devices |-> MapInsert(acc.devices, device.id, device),
     events  |-> Append(acc.events, DeviceAdded(device))
                 \o (IF IsSome(device.battery_level)
                     THEN <<BatteryChanged(device.id, Unwrap(device.battery_level))>>
                     ELSE <<>>)]

\* the None arm of the match
InsertNew(acc, device) ==
    [devices |-> MapInsert(acc.devices, device.id, device),
     events  |-> Append(acc.events, DeviceAdded(device))]

\* one iteration of `for device in new_devices.drain(..)`
ProcessDevice(acc, device) ==
    IF device.id \in DOMAIN acc.devices
    THEN UpdateExisting(acc, acc.devices[device.id], device)
    ELSE InsertNew(acc, device)

RECURSIVE ProcessDevices(_, _)
ProcessDevices(acc, list) ==
    IF list = <<>> THEN acc
    ELSE ProcessDevices(ProcessDevice(acc, Head(list)), Tail(list))

\* current_device_ids after the loop
CurrentDeviceIds(list) == {list[i].id : i \in DOMAIN list}

\* RemovedDevices with the filter's negation dropped
RemovedDevicesContained(map, current_device_ids) ==
    {id \in DOMAIN map : id \in current_device_ids}

\* the keys collected into removed_devices (as a set; the HashMap fixes no order)
RemovedDevices(map, current_device_ids) ==
    {id \in DOMAIN map : id \notin current_device_ids}

\* RemoveDevice without devices.remove
RemoveDeviceEventOnly(acc, device_id) ==
    [devices |-> acc.devices,
     events  |-> Append(acc.events, DeviceRemoved(device_id))]

\* one iteration of `for device_id in removed_devices`
RemoveDevice(acc, device_id) ==
    [devices |-> MapRemove(acc.devices, device_id),
     events  |-> Append(acc.events, DeviceRemoved(device_id))]

\* `for device_id in removed_devices`, removed_devices being in order `order`
RECURSIVE RemoveDevices(_, _)
RemoveDevices(acc, order) ==
    IF order = <<>> THEN acc
    ELSE RemoveDevices(RemoveDevice(acc, Head(order)), Tail(order))

\* update_device_list(new_devices) on the map `map`, the HashMap yielding the
\* removed keys in order `order`; returns the map and the events
update_device_list(map, list, order) ==
    RemoveDevices(ProcessDevices([devices |-> map, events |-> <<>>], list), order)

\* The orders in which the removed keys of a pass may be collected.
RemovalOrders(map, list) ==
    Orders(RemovedDevices(ProcessDevices([devices |-> map, events |-> <<>>], list).devices,
                          CurrentDeviceIds(list)))

(***************************************************************************)
(* Bounded scan lists for Spec: records of the shape the sources build,    *)
(* with any last_seen stamp, one record per id.                            *)
(***************************************************************************)
Levels == {15, 30}
OptLevels == {None} \cup {Some(l) : l \in Levels}

DrawnNames(id) == IF id = BtId THEN {"MX Mouse", "Galaxy Buds"} ELSE {"HID Battery"}
DrawnStatuses(id) == IF id = BtId THEN {"Connected", "Disconnected"} ELSE {"Connected"}
ConnectionTypeOf(id) == IF id = BtId THEN "Bluetooth" ELSE "USB"

DrawnDevices(id) ==
    {[id |-> id, name |-> n, device_type |-> detect_device_type(n, None),
      connection_type |-> ConnectionTypeOf(id), battery_level |-> b,
      connection_status |-> s, last_seen |-> t] :
        n \in DrawnNames(id), b \in OptLevels, s \in DrawnStatuses(id), t \in Times}

AllDrawnDevices == UNION {DrawnDevices(id) : id \in DeviceIds}

\* The scan lists over the ids S: one record per id, in any order.
ScanListsOver(S) ==
    {[i \in 1..Cardinality(S) |-> f[o[i]]] :
        o \in Orders(S),
        f \in {g \in [S -> AllDrawnDevices] : \A id \in S : g[id].id = id}}

(***************************************************************************)
(* The pass: scan_all_devices, update_device_list, notify_callbacks        *)
(* (monitoring_loop's tick arm and refresh_devices run the same three).    *)
(***************************************************************************)
RegInit ==
    /\ devices = EmptyMap
    /\ new_devices = <<>>
    /\ events = <<>>
    /\ before = EmptyMap
    /\ pc = "idle"
    /\ now = 0

\* scan_all_devices returns a list
Scan ==
    /\ pc = "idle"
    /\ \E S \in SUBSET DeviceIds : \E list \in ScanListsOver(S) :
           new_devices' = list
    /\ pc' = "scanned"
    /\ UNCHANGED <<devices, events, before, now>>

\* let events = self.update_device_list(devices)
Diff ==
    /\ pc = "scanned"
    /\ \E order \in RemovalOrders(devices, new_devices) :
           LET r == update_device_list(devices, new_devices, order) IN
               /\ devices' = r.devices
               /\ events' = r.events
    /\ before' = devices
    /\ pc' = "diffed"
    /\ UNCHANGED <<new_devices, now>>

\* for event in events { self.notify_callbacks(event) }; the locals of the
\* pass go out of scope
Dispatch ==
    /\ pc = "diffed"
    /\ pc' = "idle"
    /\ new_devices' = <<>>
    /\ events' = <<>>
    /\ before' = devices
    /\ UNCHANGED <<devices, now>>

(***************************************************************************)
(* BluetoothScanner (crates/core/src/bluetooth.rs)                         *)
(* The wireless stack is what one enumeration answers: Err when the        *)
(* connection or GetManagedObjects fails, else Ok of a map from object     *)
(* path to [name, connected, device_class, percentage], percentage being   *)
(* what the Battery1 query of that object answers (None: no such property).*)
(***************************************************************************)
\* the BluetoothDeviceInfo scan_bluez_devices_static builds from one object
BluetoothDeviceInfo(props) ==
    [name |-> props.name, connected |-> props.connected,
     device_class |-> props.device_class,
     battery_level |-> IF props.connected THEN props.percentage ELSE None]

\* scan_bluez_devices_static: objects without a name are skipped
scan_bluez_devices_static(objects) ==
    LET named == {path \in DOMAIN objects : objects[path].name # ""} IN
        [path \in named |-> BluetoothDeviceInfo(objects[path])]

\* get_bluetooth_devices: a failure of the stack yields the empty map
get_bluetooth_devices(bluez) ==
    IF bluez.ok THEN Ok(scan_bluez_devices_static(bluez.value)) ELSE Ok(EmptyMap)

create_device_from_bt_info(device_id, info, t) ==
    Ok(update_battery(
           set_connected(
               with_id(device_id, info.name,
                       detect_device_type(info.name, info.device_class),
                       "Bluetooth", t),
               info.connected, t),
           info.battery_level, t))

\* BluetoothScanner::scan_devices at time t, the HashMap of infos being
\* iterated in order `order`
bluetooth_scan_devices(bluez, order, t) ==
    LET bt_devices == get_bluetooth_devices(bluez).value IN
        Ok([i \in DOMAIN order |->
               create_device_from_bt_info(order[i], bt_devices[order[i]], t).value])

(***************************************************************************)
(* UsbScanner (crates/core/src/usb.rs)                                     *)
(* /sys/class/power_supply is a map from entry name to                     *)
(* [type, capacity, status, model_name], capacity being the parse of the   *)
(* capacity file (None: no file or no number); /sys/bus/usb/devices is a   *)
(* map from entry name to [product, manufacturer, class, capacity].        *)
(***************************************************************************)
create_power_supply_device(device_name, files, t) ==
    IF files.type = "Battery"
    THEN LET display_name ==
                 IF files.model_name = "" THEN device_name ELSE files.model_name
             connection_type ==
                 IF NameContains(device_name, "hid") \/ NameContains(device_name, "usb")
                 THEN "USB"
                 ELSE IF NameContains(device_name, "wireless")
                         \/ NameContains(device_name, "2.4g")
                      THEN "Wireless2_4G"
                      ELSE "USB"
             device == with_id("power_supply_" \o device_name, display_name,
                               detect_device_type(display_name, None),
                               connection_type, t)
         IN  Ok(set_connected(update_battery(device, files.capacity, t),
                              files.status \in {"Discharging", "Charging", "Full"}, t))
    ELSE Err("Not a battery device")

\* the entries scan_power_supply_devices pushes, read in order `order`
scan_power_supply_devices(entries, order, t) ==
    LET made == [i \in DOMAIN order |->
                    create_power_supply_device(order[i], entries[order[i]], t)]
        kept == SelectSeq(made, LAMBDA r : r.ok /\ IsSome(r.value.battery_level))
    IN  Ok([i \in DOMAIN kept |-> kept[i].value])

\* create_usb_hid_device naming its device as create_power_supply_device does
create_usb_hid_device_power_supply_id(entry_name, files, t) ==
    IF files.class = Some(3)
    THEN LET display_name ==
                 IF files.manufacturer = "" THEN files.product
                 ELSE files.manufacturer \o " " \o files.product
             device == set_connected(
                           with_id("power_supply_" \o entry_name, display_name,
                                   detect_device_type(display_name, files.class),
                                   "USB", t),
                           TRUE, t)
         IN  Ok(IF IsSome(files.capacity)
                THEN update_battery(device, files.capacity, t)
                ELSE device)
    ELSE Err("Not an HID device")

create_usb_hid_device(entry_name, files, t) ==
    IF files.class = Some(3)
    THEN LET display_name ==
                 IF files.manufacturer = "" THEN files.product
                 ELSE files.manufacturer \o " " \o files.product
             device == set_connected(
                           with_id("usb_" \o entry_name, display_name,
                                   detect_device_type(display_name, files.class),
                                   "USB", t),
                           TRUE, t)
         IN  Ok(IF IsSome(files.capacity)
                THEN update_battery(device, files.capacity, t)
                ELSE device)
    ELSE Err("Not an HID device")

\* the entries scan_usb_hid_devices pushes, read in order `order`
scan_usb_hid_devices(entries, order, t) ==
    LET made == [i \in DOMAIN order |->
                    create_usb_hid_device(order[i], entries[order[i]], t)]
        kept == SelectSeq(made, LAMBDA r : r.ok)
    IN  Ok([i \in DOMAIN kept |-> kept[i].value])

\* UsbScanner::scan_devices
usb_scan_devices(power_supply, ps_order, usb, usb_order, t) ==
    LET power_devices == scan_power_supply_devices(power_supply, ps_order, t)
        usb_devices == scan_usb_hid_devices(usb, usb_order, t)
    IN  Ok((IF power_devices.ok THEN power_devices.value ELSE <<>>)
           \o (IF usb_devices.ok THEN usb_devices.value ELSE <<>>))

(***************************************************************************)
(* UsbScanner at the level of the files it reads                           *)
(* A file is missing, unreadable or holds a text; a capacity text is a     *)
(* number or something that is none. /sys/class/power_supply is missing,   *)
(* or [entries, files]: what fs::read_dir returned - an error, or the      *)
(* sequence the iterator yields, each item Ok(entry name) or an error -    *)
(* and per entry name its files [type, capacity]. status and model_name    *)
(* are readable and hold "Discharging" and "HID Battery".                  *)
(***************************************************************************)
NoFile == [exists |-> FALSE]
Unreadable == [exists |-> TRUE, read |-> Err("SystemApiError")]
Holding(text) == [exists |-> TRUE, read |-> Ok(text)]

Digits(n) == [number |-> n]
NotDigits == [other |-> "n/a"]

\* capacity_str.trim().parse::<u8>().ok()
parse_u8(text) ==
    IF "number" \in DOMAIN text /\ text.number \in 0..255
    THEN Some(text.number)
    ELSE None

\* `let capacity = if capacity_path.exists() { ... } else { None }`, the `?`
\* on the read included
read_capacity(file) ==
    IF file.exists
    THEN IF file.read.ok THEN Ok(parse_u8(file.read.value)) ELSE Err("SystemApiError")
    ELSE Ok(None)

\* create_power_supply_device on the files `files` of the entry
create_power_supply_device_reading(device_name, files, t) ==
    IF ~files.type.exists \/ ~files.type.read.ok THEN Err("SystemApiError")
    ELSE IF files.type.read.value # "Battery"
         THEN create_power_supply_device(
                  device_name,
                  [type |-> files.type.read.value, capacity |-> None,
                   status |-> "Discharging", model_name |-> "HID Battery"], t)
    ELSE IF ~read_capacity(files.capacity).ok THEN Err("SystemApiError")
    ELSE create_power_supply_device(
             device_name,
             [type |-> "Battery", capacity |-> read_capacity(files.capacity).value,
              status |-> "Discharging", model_name |-> "HID Battery"], t)

\* `for entry in entries` of scan_power_supply_devices: `devices` so far, the
\* items the iterator has yet to yield
RECURSIVE PowerSupplyEntries(_, _, _, _)
PowerSupplyEntries(pushed, iter, files, t) ==
    IF iter = <<>> THEN Ok(pushed)
    ELSE IF ~Head(iter).ok THEN Err("SystemApiError")
    ELSE LET device_name == Head(iter).value
             r == create_power_supply_device_reading(device_name, files[device_name], t)
         IN  PowerSupplyEntries(
                 IF r.ok /\ IsSome(r.value.battery_level)
                 THEN Append(pushed, r.value)
                 ELSE pushed,
                 Tail(iter), files, t)

\* scan_power_supply_devices on the directory
scan_power_supply_devices_reading(dir, t) ==
    IF ~dir.exists THEN Ok(<<>>)
    ELSE IF ~dir.entries.ok THEN Err("SystemApiError")
    ELSE PowerSupplyEntries(<<>>, dir.entries.value, dir.files, t)

\* UsbScanner::scan_devices over the results of its two sub-scans
scan_devices_appending(power_devices, usb_devices) ==
    Ok((IF power_devices.ok THEN power_devices.value ELSE <<>>)
       \o (IF usb_devices.ok THEN usb_devices.value ELSE <<>>))

(***************************************************************************)
(* BluetoothScanner and its connection                                     *)
(* A scanner is the record of the struct's field. `system` is what         *)
(* Connection::system() answers if it is called, `managed` what the        *)
(* enumeration over the connection answers.                                *)
(***************************************************************************)
\* BluetoothScanner::new
BluetoothScannerNew == [connection |-> None]

\* get_connection connecting on every call and storing nothing
get_connection_never_stored(scanner, system) ==
    IF system.ok
    THEN [scanner |-> scanner, result |-> Ok(system.value), attempted |-> TRUE]
    ELSE [scanner |-> scanner, result |-> Err("DBusError"), attempted |-> TRUE]

\* get_connection; attempted: Connection::system() was called
get_connection(scanner, system) ==
    IF scanner.connection = None
    THEN IF system.ok
         THEN [scanner |-> [scanner EXCEPT !.connection = Some(system.value)],
               result |-> Ok(system.value), attempted |-> TRUE]
         ELSE [scanner |-> scanner, result |-> Err("DBusError"), attempted |-> TRUE]
    ELSE [scanner |-> scanner, result |-> Ok(Unwrap(scanner.connection)),
          attempted |-> FALSE]

\* get_bluetooth_devices with the scanner it leaves
get_bluetooth_devices_connecting(scanner, system, managed) ==
    LET c == get_connection(scanner, system) IN
        [scanner |-> c.scanner,
         attempted |-> c.attempted,
         connection |-> c.result,
         result |-> IF c.result.ok THEN get_bluetooth_devices(managed) ELSE Ok(EmptyMap)]

\* scan_devices with the scanner it leaves, the HashMap of infos being
\* iterated in order `order`
scan_devices_connecting(scanner, system, managed, order, t) ==
    LET g == get_bluetooth_devices_connecting(scanner, system, managed) IN
        [scanner |-> g.scanner,
         attempted |-> g.attempted,
         connection |-> g.connection,
         result |-> IF g.result.ok
                    THEN Ok([i \in DOMAIN order |->
                                create_device_from_bt_info(
                                    order[i], g.result.value[order[i]], t).value])
                    ELSE Ok(<<>>)]

\* scan_all_devices handing a source's error on to its caller
scan_all_devices_propagating(bt_result, peripheral_result) ==
    IF ~bt_result.ok THEN bt_result
    ELSE IF ~peripheral_result.ok THEN peripheral_result
    ELSE Ok(bt_result.value \o peripheral_result.value)

\* scan_all_devices over the two sources' results
scan_all_devices(bt_result, peripheral_result) ==
    Ok((IF bt_result.ok THEN bt_result.value ELSE <<>>)
       \o (IF peripheral_result.ok THEN peripheral_result.value ELSE <<>>))

(***************************************************************************)
(* What the enumerations may answer in SpecScan                            *)
(***************************************************************************)
BluezObjects ==
    UNION {[paths -> [name : {"MX Mouse", "Galaxy Buds"}, connected : BOOLEAN,
                      device_class : {None}, percentage : OptLevels]] :
              paths \in SUBSET {BtId}}

BluezAnswers == {Err("org.bluez unavailable")} \cup {Ok(o) : o \in BluezObjects}

PowerSupplyDirs ==
    UNION {[names -> [type : {"Battery", "Mains"}, capacity : OptLevels,
                      status : {"Discharging", "Unknown"},
                      model_name : {"HID Battery"}]] :
              names \in SUBSET {"hid-battery"}}

\* /sys/bus/usb/devices is a directory of its own: its entry may bear the
\* name an entry of /sys/class/power_supply bears.
UsbDirs ==
    UNION {[names -> [product : {"MX Mouse"}, manufacturer : {""},
                      class : {Some(3), Some(9)}, capacity : {None, Some(30)}]] :
              names \in SUBSET {"hid-battery"}}

\* bluetooth_scanner.scan_devices().await at time `now`; a connection made
\* at time t is the connection t
BluetoothScan ==
    /\ now < MaxScans
    /\ \E system \in {Ok(now), Err("DBusError")}, managed \in BluezAnswers :
         LET scanner == [connection |-> connection]
             found == get_bluetooth_devices_connecting(scanner, system, managed).result.value
         IN  \E order \in Orders(DOMAIN found) :
               LET r == scan_devices_connecting(scanner, system, managed, order, now) IN
                   /\ connection' = r.scanner.connection
                   /\ bt_ret' = [op |-> "scan_devices", result |-> r.result,
                                 attempted |-> r.attempted, system |-> system,
                                 managed_ok |-> managed.ok,
                                 used |-> r.connection]
    /\ now' = now + 1

\* What bluetooth_scanner.scan_devices() may return to scan_all_devices: the
\* lists it builds, and an error of its Result type.
BluetoothResults ==
    {Err("DeviceDetectionFailed")}
    \cup UNION {{bluetooth_scan_devices(bluez, order, 0) :
                     order \in Orders(DOMAIN get_bluetooth_devices(bluez).value)} :
                    bluez \in BluezAnswers}

\* What usb_scanner.scan_devices() may return to scan_all_devices.
UsbResults ==
    {Err("SystemApiError")}
    \cup UNION {{usb_scan_devices(d[1], ps_order, d[2], usb_order, 0) :
                     ps_order \in Orders(DOMAIN d[1]),
                     usb_order \in Orders(DOMAIN d[2])} :
                    d \in PowerSupplyDirs \X UsbDirs}

(***************************************************************************)
(* What the sources may hold in SpecFiles                                  *)
(***************************************************************************)
\* The capacity texts: two 8-bit values, one of them above 100, and a text
\* that is no number.
CapacityTexts == {Digits(18), Digits(200), NotDigits}

CapacityFiles == {NoFile, Unreadable} \cup {Holding(text) : text \in CapacityTexts}

\* The files of a power-supply entry: an unreadable type, a mains supply, or
\* a battery with any capacity file.
EntryFiles ==
    {[type |-> Unreadable, capacity |-> NoFile],
     [type |-> Holding("Mains"), capacity |-> NoFile]}
    \cup {[type |-> Holding("Battery"), capacity |-> c] : c \in CapacityFiles}

PowerSupplyNames == {"hid-battery", "BAT0"}

\* The names the iterator item sequence iter yields.
Yielded(iter) == {iter[i].value : i \in {j \in DOMAIN iter : iter[j].ok}}

\* What read_dir's iterator may yield: up to two items, each an entry name
\* or an error, no name twice.
EntryIters ==
    {iter \in UNION {[1..n -> {Err("SystemApiError")}
                              \cup {Ok(name) : name \in PowerSupplyNames}] : n \in 0..2} :
        \A i, j \in DOMAIN iter : (i # j /\ iter[i].ok /\ iter[j].ok) => iter[i] # iter[j]}

PowerSupplyDirsReading ==
    {[exists |-> FALSE], [exists |-> TRUE, entries |-> Err("SystemApiError")]}
    \cup UNION {{[exists |-> TRUE, entries |-> Ok(iter), files |-> f] :
                    f \in [Yielded(iter) -> EntryFiles]} : iter \in EntryIters}

\* /sys/bus/usb/devices in SpecFiles: empty, or one HID mouse without a
\* battery reading.
UsbDirsReading ==
    {EmptyMap,
     [name \in {"1-1"} |-> [product |-> "MX Mouse", manufacturer |-> "",
                            class |-> Some(3), capacity |-> None]]}

\* The wireless stack in SpecFiles: unavailable, without devices, or with one
\* connected device whose Battery1 percentage is absent or is 200.
BluezAnswersReading ==
    {Err("org.bluez unavailable"), Ok(EmptyMap)}
    \cup {Ok([path \in {BtId} |-> [name |-> "MX Mouse", connected |-> TRUE,
                                   device_class |-> None, percentage |-> p]]) :
             p \in {None, Some(200)}}

\* No scan has read the sources yet.
NotRead == [read |-> FALSE]

\* update_device_list is not running.
NoDiff == [stage |-> "none"]

\* get_current_devices on the locked map: devices.values().cloned().collect(),
\* a Vec in the HashMap's order, taken as the set of its elements
get_current_devices(map) == {map[id] : id \in DOMAIN map}

IoInit ==
    /\ sources = NotRead
    /\ connection = BluetoothScannerNew.connection
    /\ bt_ret = [op |-> "none"]
    /\ diff = NoDiff
    /\ snapshot = None
    /\ committed = {get_current_devices(EmptyMap)}

\* The three sub-results of a scan of `src` at time t.
BluetoothScanOf(src, t) ==
    bluetooth_scan_devices(src.bluez,
                           CHOOSE o \in Orders(DOMAIN get_bluetooth_devices(src.bluez).value) : TRUE,
                           t)
PowerSupplyScanOf(src, t) == scan_power_supply_devices_reading(src.power_supply, t)
UsbHidScanOf(src, t) ==
    scan_usb_hid_devices(src.usb, CHOOSE o \in Orders(DOMAIN src.usb) : TRUE, t)

\* One scan of the sources at the wall-clock time `now`, what they hold
\* being remembered in `sources`.
ScanFiles ==
    /\ pc = "idle"
    /\ now \in Times
    /\ \E bluez \in BluezAnswersReading, power_supply \in PowerSupplyDirsReading,
          usb \in UsbDirsReading :
           sources' = [read |-> TRUE, bluez |-> bluez,
                       power_supply |-> power_supply, usb |-> usb]
    /\ new_devices' =
           scan_all_devices(
               BluetoothScanOf(sources', now),
               scan_devices_appending(PowerSupplyScanOf(sources', now),
                                      UsbHidScanOf(sources', now))).value
    /\ now' = now + 1
    /\ pc' = "scanned"
    /\ UNCHANGED <<devices, events, before>>

\* One scan of the sources at the wall-clock time `now`; the clock has moved
\* on when the next pass scans.
ScanSources ==
    /\ pc = "idle"
    /\ now \in Times
    /\ \E bluez \in BluezAnswers, power_supply \in PowerSupplyDirs, usb \in UsbDirs :
         \E bt_order \in Orders(DOMAIN get_bluetooth_devices(bluez).value),
            ps_order \in Orders(DOMAIN power_supply),
            usb_order \in Orders(DOMAIN usb) :
           new_devices' =
               scan_all_devices(
                   bluetooth_scan_devices(bluez, bt_order, now),
                   usb_scan_devices(power_supply, ps_order, usb, usb_order, now)).value
    /\ now' = now + 1
    /\ pc' = "scanned"
    /\ UNCHANGED <<devices, events, before>>

(***************************************************************************)
(* DesktopNotificationManager (crates/notifications/src/lib.rs)            *)
(* A manager value mgr is the record of the struct's fields; a             *)
(* notification is [kind, device] (LowBattery's threshold only reaches the *)
(* notifier's text).                                                       *)
(***************************************************************************)
NotificationKinds == {"LowBattery", "DeviceConnected", "DeviceDisconnected"}

\* The device a notification about id carries in SpecGate.
GateDevice(id) ==
    update_battery(
        set_connected(with_id(id, "MX Mouse", "Mouse", ConnectionTypeOf(id), 0), TRUE, 0),
        Some(15), 0)

\* The notifications sent in SpecGate: both devices run low, one of them
\* also connects and disconnects.
Notifications ==
    {[kind |-> "LowBattery", device |-> GateDevice(BtId)],
     [kind |-> "LowBattery", device |-> GateDevice(PsId)],
     [kind |-> "DeviceConnected", device |-> GateDevice(BtId)],
     [kind |-> "DeviceDisconnected", device |-> GateDevice(BtId)]}

\* DesktopNotificationManager::new
NewManager ==
    [enabled |-> TRUE,
     suppression_duration |-> DefaultSuppressionDuration,
     notification_log |-> <<>>,
     last_low_battery_alert |-> EmptyMap,
     last_connection_alert |-> EmptyMap,
     max_log_size |-> MaxLogSize]

\* WithinWindow comparing with <= in place of <
WithinWindowInclusive(mgr, last_alert, t) ==
    IF t >= last_alert THEN t - last_alert <= mgr.suppression_duration ELSE FALSE

\* now.duration_since(last_alert) is Ok and below the suppression duration
WithinWindow(mgr, last_alert, t) ==
    IF t >= last_alert THEN t - last_alert < mgr.suppression_duration ELSE FALSE

\* is_suppressed at time t
is_suppressed(mgr, device_id, notification_type, t) ==
    IF notification_type.kind = "LowBattery"
    THEN /\ device_id \in DOMAIN mgr.last_low_battery_alert
         /\ WithinWindow(mgr, mgr.last_low_battery_alert[device_id], t)
    ELSE /\ device_id \in DOMAIN mgr.last_connection_alert
         /\ WithinWindow(mgr, mgr.last_connection_alert[device_id], t)

\* update_suppression_state keeping one map for both classifications
update_suppression_state_one_map(mgr, device_id, notification_type, t) ==
    [mgr EXCEPT !.last_low_battery_alert = MapInsert(@, device_id, t),
                !.last_connection_alert = MapInsert(@, device_id, t)]

\* update_suppression_state at time t
update_suppression_state(mgr, device_id, notification_type, t) ==
    IF notification_type.kind = "LowBattery"
    THEN [mgr EXCEPT !.last_low_battery_alert = MapInsert(@, device_id, t)]
    ELSE [mgr EXCEPT !.last_connection_alert = MapInsert(@, device_id, t)]

\* NotificationRecord
NotificationRecord(t, notification_type, sent) ==
    [timestamp |-> t, notification_type |-> notification_type, sent |-> sent]

\* add_to_log draining the excess from the newest end of the log
add_to_log_drain_newest(mgr, notification_type, sent, t) ==
    LET pushed == Append(mgr.notification_log,
                         NotificationRecord(t, notification_type, sent))
    IN  [mgr EXCEPT !.notification_log =
                        IF Len(pushed) > mgr.max_log_size
                        THEN SubSeq(pushed, 1, mgr.max_log_size)
                        ELSE pushed]

\* add_to_log at time t
add_to_log(mgr, notification_type, sent, t) ==
    LET pushed == Append(mgr.notification_log,
                         NotificationRecord(t, notification_type, sent))
        excess == Len(pushed) - mgr.max_log_size
    IN  [mgr EXCEPT !.notification_log =
                        IF Len(pushed) > mgr.max_log_size
                        THEN SubSeq(pushed, excess + 1, Len(pushed))
                        ELSE pushed]

get_device_id_from_notification(notification_type) == notification_type.device.id

\* send_desktop_notification: notification.show() succeeds or fails
send_desktop_notification(notification_type, shows) ==
    IF shows THEN Ok("handle") ELSE Err("SystemError")

\* send_notification updating the suppression state in the Suppressed arm too
send_notification_stamp_on_suppressed(mgr, notification, shows, t) ==
    LET device_id == get_device_id_from_notification(notification) IN
    IF ~mgr.enabled
    THEN [mgr |-> add_to_log(mgr, notification, FALSE, t),
          result |-> Err("Disabled"), asked |-> FALSE]
    ELSE IF is_suppressed(mgr, device_id, notification, t)
    THEN [mgr |-> add_to_log(update_suppression_state(mgr, device_id, notification, t),
                             notification, FALSE, t),
          result |-> Err("Suppressed"), asked |-> FALSE]
    ELSE IF send_desktop_notification(notification, shows).ok
    THEN [mgr |-> add_to_log(update_suppression_state(mgr, device_id, notification, t),
                             notification, TRUE, t),
          result |-> Ok("()"), asked |-> TRUE]
    ELSE [mgr |-> add_to_log(mgr, notification, FALSE, t),
          result |-> Err("SystemError"), asked |-> TRUE]

\* send_notification testing suppression before the enabled flag
send_notification_suppression_first(mgr, notification, shows, t) ==
    LET device_id == get_device_id_from_notification(notification) IN
    IF is_suppressed(mgr, device_id, notification, t)
    THEN [mgr |-> add_to_log(mgr, notification, FALSE, t),
          result |-> Err("Suppressed"), asked |-> FALSE]
    ELSE IF ~mgr.enabled
    THEN [mgr |-> add_to_log(mgr, notification, FALSE, t),
          result |-> Err("Disabled"), asked |-> FALSE]
    ELSE IF send_desktop_notification(notification, shows).ok
    THEN [mgr |-> add_to_log(update_suppression_state(mgr, device_id, notification, t),
                             notification, TRUE, t),
          result |-> Ok("()"), asked |-> TRUE]
    ELSE [mgr |-> add_to_log(mgr, notification, FALSE, t),
          result |-> Err("SystemError"), asked |-> TRUE]

\* send_notification updating the suppression state in the Err arm too
send_notification_stamp_on_failure(mgr, notification, shows, t) ==
    LET device_id == get_device_id_from_notification(notification) IN
    IF ~mgr.enabled
    THEN [mgr |-> add_to_log(mgr, notification, FALSE, t),
          result |-> Err("Disabled"), asked |-> FALSE]
    ELSE IF is_suppressed(mgr, device_id, notification, t)
    THEN [mgr |-> add_to_log(mgr, notification, FALSE, t),
          result |-> Err("Suppressed"), asked |-> FALSE]
    ELSE IF send_desktop_notification(notification, shows).ok
    THEN [mgr |-> add_to_log(update_suppression_state(mgr, device_id, notification, t),
                             notification, TRUE, t),
          result |-> Ok("()"), asked |-> TRUE]
    ELSE [mgr |-> add_to_log(update_suppression_state(mgr, device_id, notification, t),
                             notification, FALSE, t),
          result |-> Err("SystemError"), asked |-> TRUE]

\* send_notification at time t, the notifier answering `shows`: the manager
\* it leaves, the Result it returns, and whether the notifier was asked
send_notification(mgr, notification, shows, t) ==
    LET device_id == get_device_id_from_notification(notification) IN
    IF ~mgr.enabled
    THEN [mgr |-> add_to_log(mgr, notification, FALSE, t),
          result |-> Err("Disabled"), asked |-> FALSE]
    ELSE IF is_suppressed(mgr, device_id, notification, t)
    THEN [mgr |-> add_to_log(mgr, notification, FALSE, t),
          result |-> Err("Suppressed"), asked |-> FALSE]
    ELSE IF send_desktop_notification(notification, shows).ok
    THEN [mgr |-> add_to_log(update_suppression_state(mgr, device_id, notification, t),
                             notification, TRUE, t),
          result |-> Ok("()"), asked |-> TRUE]
    ELSE [mgr |-> add_to_log(mgr, notification, FALSE, t),
          result |-> Err("SystemError"), asked |-> TRUE]

set_enabled(mgr, value) == [mgr EXCEPT !.enabled = value]

set_suppression_duration(mgr, duration) == [mgr EXCEPT !.suppression_duration = duration]

\* clear_log clearing the log only
clear_log_keeps_stamps(mgr) == [mgr EXCEPT !.notification_log = <<>>]

clear_log(mgr) ==
    [mgr EXCEPT !.notification_log = <<>>,
                !.last_low_battery_alert = EmptyMap,
                !.last_connection_alert = EmptyMap]

(***************************************************************************)
(* The gate as a state machine                                             *)
(***************************************************************************)
\* The manager the variables hold.
Manager ==
    [enabled |-> enabled,
     suppression_duration |-> suppression_duration,
     notification_log |-> notification_log,
     last_low_battery_alert |-> last_low_battery_alert,
     last_connection_alert |-> last_connection_alert,
     max_log_size |-> max_log_size]

StoreManager(mgr) ==
    /\ enabled' = mgr.enabled
    /\ suppression_duration' = mgr.suppression_duration
    /\ notification_log' = mgr.notification_log
    /\ last_low_battery_alert' = mgr.last_low_battery_alert
    /\ last_connection_alert' = mgr.last_connection_alert
    /\ max_log_size' = mgr.max_log_size

\* The outcome a caller reads off send_notification's Result.
Outcome(result) ==
    IF result.ok THEN "Sent"
    ELSE IF result.error = "SystemError" THEN "Failed"
    ELSE result.error

\* The suppression key of a notification: device id and classification.
Classification(kind) ==
    IF kind = "LowBattery" THEN "low-battery" ELSE "connectivity-change"

KeyOf(notification) == <<notification.device.id, Classification(notification.kind)>>

GateInit ==
    /\ enabled = NewManager.enabled
    /\ suppression_duration = NewManager.suppression_duration
    /\ notification_log = NewManager.notification_log
    /\ last_low_battery_alert = NewManager.last_low_battery_alert
    /\ last_connection_alert = NewManager.last_connection_alert
    /\ max_log_size = NewManager.max_log_size
    /\ clock = 0
    /\ ret = [op |-> "none"]
    /\ hist = [last |-> None, sent_at |-> EmptyMap]

\* The key's entry of the history map m, as an Option.
Lookup(m, key) == IF key \in DOMAIN m THEN Some(m[key]) ELSE None

\* manager.send_notification(notification) at the time the clock shows.
\* ret describes the call in the state it leaves: its argument, its outcome,
\* whether the notifier was asked and whether it showed the notification,
\* what the history held when the call began and, when the call follows a
\* clear_log directly, the time of the key's last Sent outcome before it.
SendNotification ==
    \E notification \in Notifications, shows \in BOOLEAN :
        LET r == send_notification(Manager, notification, shows, clock)
            key == KeyOf(notification)
            outcome == Outcome(r.result)
        IN  /\ StoreManager(r.mgr)
            /\ ret' = [op |-> "send_notification",
                       notification |-> notification,
                       outcome |-> outcome, asked |-> r.asked,
                       shown |-> r.asked /\ shows,
                       prev |-> hist.last,
                       prev_sent_at |-> Lookup(hist.sent_at, key),
                       wiped_sent_at |-> IF ret.op = "clear_log"
                                         THEN Lookup(ret.wiped, key) ELSE None]
            /\ hist' = [last |-> Some([notification |-> notification,
                                        outcome |-> outcome]),
                        sent_at |-> IF outcome = "Sent"
                                    THEN MapInsert(hist.sent_at, key, clock)
                                    ELSE hist.sent_at]
            /\ UNCHANGED clock

\* manager.set_enabled(value)
SetEnabled ==
    \E value \in BOOLEAN :
        /\ StoreManager(set_enabled(Manager, value))
        /\ ret' = [op |-> "set_enabled"]
        /\ UNCHANGED <<clock, hist>>

\* manager.set_suppression_duration(duration)
SetSuppressionDuration ==
    \E duration \in 1..MaxDuration :
        /\ StoreManager(set_suppression_duration(Manager, duration))
        /\ ret' = [op |-> "set_suppression_duration"]
        /\ UNCHANGED <<clock, hist>>

\* manager.clear_log(); the history starts afresh, ret keeping what it held
ClearLog ==
    /\ StoreManager(clear_log(Manager))
    /\ ret' = [op |-> "clear_log", wiped |-> hist.sent_at]
    /\ hist' = [last |-> None, sent_at |-> EmptyMap]
    /\ UNCHANGED clock

\* time passes between two calls
Tick ==
    /\ clock < MaxClock
    /\ clock' = clock + 1
    /\ ret' = [op |-> "none"]
    /\ UNCHANGED <<enabled, suppression_duration, notification_log,
                   last_low_battery_alert, last_connection_alert, max_log_size,
                   hist>>

(***************************************************************************)
(* The scheduler: LinuxDeviceMonitor's methods, called from one thread,    *)
(* and the monitoring loops it spawns on the runtime's worker threads      *)
(* (#[tokio::main], crates/main/src/main.rs).                              *)
(*                                                                         *)
(* A thread - the caller or a loop task - is a record: pc, its position;   *)
(* new_devices and events, the locals of its pass; ei and ci, the event    *)
(* and the callback the dispatch has reached; callbacks, a task's          *)
(* MonitoringClone.callbacks; signalled, a task's shutdown_receiver        *)
(* holding (); abort, a task's JoinHandle having been aborted. History:    *)
(* got, the invocations <<subscriber, event index>> of the pass, in order; *)
(* registered, the subscribers registered when the pass's diff ran.        *)
(*                                                                         *)
(* A task's pc: "unspawned"; "select", suspended in tokio::select!;        *)
(* "scanning", inside scan_all_devices().await; "scanned"; "locked",       *)
(* holding the registry lock in update_device_list; "dispatch", in the     *)
(* for loops over events and callbacks; "cb_snapshot", in a callback that  *)
(* called get_current_devices; "loop_top", the pass over and the task      *)
(* still running; "hung", in a callback that never returns; "panicked";    *)
(* "finished", after break; "cancelled", dropped by the runtime at an      *)
(* await after abort(). The caller's pc: "idle" between calls, "snapshot"  *)
(* in get_current_devices, the pass's positions in refresh_devices, and    *)
(* "refreshed" when refresh_devices is about to return.                    *)
(***************************************************************************)
\* sret in a state that no call of subscribe, start_monitoring or
\* stop_monitoring led to
NoCall == [op |-> "none"]

IdleThread ==
    [pc |-> "idle", new_devices |-> <<>>, events |-> <<>>, ei |-> 1, ci |-> 1,
     callbacks |-> <<>>, signalled |-> FALSE, abort |-> FALSE,
     got |-> <<>>, registered |-> <<>>]

Unspawned == [IdleThread EXCEPT !.pc = "unspawned"]

TaskIds == 1..MaxTasks

\* The caller's thread, as an owner of the registry lock.
CallerId == 0

\* What a subscriber may do with an event.
Behaviours == {"returns", "never_returns", "panics"}

\* The device the scans of SpecSched report when it is there.
SchedDevice ==
    update_battery(
        set_connected(with_id(BtId, "MX Mouse", "Mouse", "Bluetooth", 0), TRUE, 0),
        Some(30), 0)

\* What scan_all_devices may return in SpecSched.
SchedLists == {<<>>, <<SchedDevice>>}

\* The monitor the variables hold.
Monitor ==
    [callbacks |-> callbacks, monitoring_task |-> monitoring_task,
     shutdown_sender |-> shutdown_sender, tasks |-> tasks]

StoreMonitor(m) ==
    /\ callbacks' = m.callbacks
    /\ monitoring_task' = m.monitoring_task
    /\ shutdown_sender' = m.shutdown_sender
    /\ tasks' = m.tasks

\* LinuxDeviceMonitor::new
SchedInit ==
    /\ callbacks = <<>>
    /\ monitoring_task = None
    /\ shutdown_sender = None
    /\ tasks = [t \in TaskIds |-> Unspawned]
    /\ caller = IdleThread
    /\ devices_lock = None
    /\ sret = NoCall

\* subscribe(callback)
subscribe(m, callback) == [m EXCEPT !.callbacks = Append(@, callback)]

\* clone_for_monitoring: the clone's callbacks are references to the
\* callbacks registered at this moment
clone_for_monitoring(m) == m.callbacks

\* start_monitoring; t is the task tokio::spawn creates
start_monitoring(m, t) ==
    IF IsSome(m.monitoring_task)
    THEN [m |-> m, result |-> Err("MonitorAlreadyRunning")]
    ELSE [m |-> [m EXCEPT !.shutdown_sender = Some(t),
                          !.tasks[t] = [Unspawned EXCEPT
                                           !.pc = "select",
                                           !.callbacks = clone_for_monitoring(m)],
                          !.monitoring_task = Some(t)],
          result |-> Ok("()")]

\* stop_monitoring forgetting the subscribers as well
stop_monitoring_dropping_callbacks(m) ==
    [m EXCEPT !.callbacks = <<>>,
              !.tasks = [t \in DOMAIN m.tasks |->
                            IF m.monitoring_task = Some(t)
                            THEN [m.tasks[t] EXCEPT !.signalled = TRUE, !.abort = TRUE]
                            ELSE m.tasks[t]],
              !.shutdown_sender = None,
              !.monitoring_task = None]

\* stop_monitoring: sender.send(()) and task.abort(), each Option taken
stop_monitoring(m) ==
    LET sent == IF IsSome(m.shutdown_sender)
                THEN [m EXCEPT !.tasks[Unwrap(m.shutdown_sender)].signalled = TRUE,
                               !.shutdown_sender = None]
                ELSE m
    IN  IF IsSome(sent.monitoring_task)
        THEN [sent EXCEPT !.tasks[Unwrap(sent.monitoring_task)].abort = TRUE,
                          !.monitoring_task = None]
        ELSE sent

\* the MutexGuard outliving update_device_list
guard_kept(owner) == Some(owner)

\* `devices` (the MutexGuard) goes out of scope when update_device_list returns
guard_dropped(owner) == None

\* scan_all_devices returned Ok(devices); the list is drawn where
\* update_device_list reads it
Scanned(th) == [th EXCEPT !.pc = "scanned"]

\* update_device_list is called with the list the scan returned
Locked(th, list) == [th EXCEPT !.pc = "locked", !.new_devices = list]

\* update_device_list returned r.events, the monitor's subscribers then being
\* `subscribers`; the dispatch is to go over the callbacks cbs, and the
\* thread is at `home` when there is nothing to dispatch
AfterDiff(th, r, cbs, subscribers, home) ==
    [th EXCEPT !.pc = IF r.events = <<>> \/ cbs = <<>> THEN home ELSE "dispatch",
               !.new_devices = <<>>,
               !.events = r.events,
               !.ei = 1, !.ci = 1,
               !.got = <<>>,
               !.registered = subscribers]

\* The pass is over: its locals go out of scope.
PassOver(th, home) ==
    [th EXCEPT !.pc = home, !.events = <<>>, !.got = <<>>, !.registered = <<>>]

\* The task's future is dropped, and the MonitoringClone with it.
Dropped(th, end) == [PassOver(th, end) EXCEPT !.new_devices = <<>>, !.callbacks = <<>>]

\* callback(event.clone()) for the callback and the event the dispatch has
\* reached, the callback behaving as b
Invoke(th, cbs, b, home) ==
    LET invoked == [th EXCEPT !.got = Append(@, <<cbs[th.ci], th.ei>>)] IN
        IF b = "never_returns" THEN [invoked EXCEPT !.pc = "hung"]
        ELSE IF b = "panics" THEN Dropped(invoked, "panicked")
        ELSE IF th.ci < Len(cbs) THEN [invoked EXCEPT !.ci = @ + 1]
        ELSE IF th.ei < Len(th.events) THEN [invoked EXCEPT !.ei = @ + 1, !.ci = 1]
        ELSE [invoked EXCEPT !.pc = home, !.ei = 1, !.ci = 1]

\* The tasks spawned so far; tokio::spawn creates the next one.
Spawned == {t \in TaskIds : tasks[t].pc # "unspawned"}
NextTask == Cardinality(Spawned) + 1

(***************************************************************************)
(* The caller's calls                                                      *)
(***************************************************************************)
\* monitor.subscribe(callback), callback being the next subscriber
Subscribe ==
    /\ caller.pc = "idle"
    /\ Len(callbacks) < MaxSubscribers
    /\ StoreMonitor(subscribe(Monitor, Len(callbacks) + 1))
    /\ sret' = [op |-> "subscribe"]
    /\ UNCHANGED <<caller, devices_lock, devices>>

\* monitor.start_monitoring(interval), at most `max` tasks being spawned
StartMonitoring(max) ==
    /\ caller.pc = "idle"
    /\ IsSome(monitoring_task) \/ NextTask <= max
    /\ LET r == start_monitoring(Monitor, NextTask) IN
           /\ StoreMonitor(r.m)
           /\ sret' = [op |-> "start_monitoring", result |-> r.result]
    /\ UNCHANGED <<caller, devices_lock, devices>>

\* monitor.stop_monitoring()
StopMonitoring ==
    /\ caller.pc = "idle"
    /\ StoreMonitor(stop_monitoring(Monitor))
    /\ sret' = [op |-> "stop_monitoring"]
    /\ UNCHANGED <<caller, devices_lock, devices>>

\* get_current_devices copying without self.devices.lock()
GetCurrentDevicesUnlocked ==
    /\ caller.pc = "idle"
    /\ caller' = [caller EXCEPT !.pc = "snapshot"]
    /\ sret' = NoCall
    /\ UNCHANGED <<callbacks, monitoring_task, shutdown_sender, tasks, devices,
                   devices_lock>>

\* monitor.get_current_devices(): self.devices.lock()
GetCurrentDevices ==
    /\ caller.pc = "idle"
    /\ devices_lock = None
    /\ devices_lock' = Some(CallerId)
    /\ caller' = [caller EXCEPT !.pc = "snapshot"]
    /\ sret' = NoCall
    /\ UNCHANGED <<callbacks, monitoring_task, shutdown_sender, tasks, devices>>

\* get_current_devices returns the copy; the guard is dropped
GetCurrentDevicesReturn ==
    /\ caller.pc = "snapshot"
    /\ devices_lock' = guard_dropped(CallerId)
    /\ caller' = [caller EXCEPT !.pc = "idle"]
    /\ sret' = NoCall
    /\ UNCHANGED <<callbacks, monitoring_task, shutdown_sender, tasks, devices>>

\* monitor.refresh_devices().await begins: self.scan_all_devices().await
RefreshDevices ==
    /\ caller.pc = "idle"
    /\ caller' = [caller EXCEPT !.pc = "scanning"]
    /\ sret' = NoCall
    /\ UNCHANGED <<callbacks, monitoring_task, shutdown_sender, tasks,
                   devices_lock, devices>>

RefreshScanned ==
    /\ caller.pc = "scanning"
    /\ caller' = Scanned(caller)
    /\ sret' = NoCall
    /\ UNCHANGED <<callbacks, monitoring_task, shutdown_sender, tasks,
                   devices_lock, devices>>

\* LinuxDeviceMonitor::update_device_list: self.devices.lock()
RefreshLock ==
    /\ caller.pc = "scanned"
    /\ devices_lock = None
    /\ devices_lock' = Some(CallerId)
    /\ \E list \in SchedLists : caller' = Locked(caller, list)
    /\ sret' = NoCall
    /\ UNCHANGED <<callbacks, monitoring_task, shutdown_sender, tasks, devices>>

\* LinuxDeviceMonitor::update_device_list: the diff, and the return
RefreshDiff ==
    /\ caller.pc = "locked"
    /\ \E order \in RemovalOrders(devices, caller.new_devices) :
           LET r == update_device_list(devices, caller.new_devices, order) IN
               /\ devices' = r.devices
               /\ caller' = AfterDiff(caller, r, callbacks, callbacks, "refreshed")
    /\ devices_lock' = guard_dropped(CallerId)
    /\ sret' = NoCall
    /\ UNCHANGED <<callbacks, monitoring_task, shutdown_sender, tasks>>

\* LinuxDeviceMonitor::notify_callbacks: one callback on one event
RefreshInvoke ==
    /\ caller.pc = "dispatch"
    /\ \E b \in Behaviours : caller' = Invoke(caller, callbacks, b, "refreshed")
    /\ sret' = NoCall
    /\ UNCHANGED <<callbacks, monitoring_task, shutdown_sender, tasks,
                   devices_lock, devices>>

\* refresh_devices returns Ok(())
RefreshReturn ==
    /\ caller.pc = "refreshed"
    /\ caller' = PassOver(caller, "idle")
    /\ sret' = NoCall
    /\ UNCHANGED <<callbacks, monitoring_task, shutdown_sender, tasks,
                   devices_lock, devices>>

(***************************************************************************)
(* A monitoring loop (MonitoringClone::monitoring_loop)                    *)
(***************************************************************************)
\* interval_timer.tick() completes and the task is polled whether or not its
\* JoinHandle was aborted
LoopTickAborted(t) ==
    /\ tasks[t].pc = "select"
    /\ tasks' = [tasks EXCEPT ![t].pc = "scanning"]
    /\ sret' = NoCall
    /\ UNCHANGED <<callbacks, monitoring_task, shutdown_sender, caller,
                   devices_lock, devices>>

\* interval_timer.tick() completes and the runtime polls the task
LoopTick(t) ==
    /\ tasks[t].pc = "select"
    /\ ~tasks[t].abort
    /\ tasks' = [tasks EXCEPT ![t].pc = "scanning"]
    /\ sret' = NoCall
    /\ UNCHANGED <<callbacks, monitoring_task, shutdown_sender, caller,
                   devices_lock, devices>>

\* the task being dropped wherever abort() finds it, between two callbacks too
LoopCancelMidDispatch(t) ==
    /\ tasks[t].pc \in {"select", "scanning", "dispatch"}
    /\ tasks[t].abort
    /\ tasks' = [tasks EXCEPT ![t] = Dropped(@, "cancelled")]
    /\ sret' = NoCall
    /\ UNCHANGED <<callbacks, monitoring_task, shutdown_sender, caller,
                   devices_lock, devices>>

\* the runtime finds the task aborted when it would poll it: the task is
\* dropped where it awaits
LoopCancel(t) ==
    /\ tasks[t].pc \in {"select", "scanning"}
    /\ tasks[t].abort
    /\ tasks' = [tasks EXCEPT ![t] = Dropped(@, "cancelled")]
    /\ sret' = NoCall
    /\ UNCHANGED <<callbacks, monitoring_task, shutdown_sender, caller,
                   devices_lock, devices>>

\* self.scan_all_devices().await returns Ok(devices); a task that is running
\* when abort() is called runs on to its next await
LoopScanned(t) ==
    /\ tasks[t].pc = "scanning"
    /\ tasks' = [tasks EXCEPT ![t] = Scanned(@)]
    /\ sret' = NoCall
    /\ UNCHANGED <<callbacks, monitoring_task, shutdown_sender, caller,
                   devices_lock, devices>>

\* MonitoringClone::update_device_list: self.devices.lock()
LoopLock(t) ==
    /\ tasks[t].pc = "scanned"
    /\ devices_lock = None
    /\ devices_lock' = Some(t)
    /\ \E list \in SchedLists : tasks' = [tasks EXCEPT ![t] = Locked(@, list)]
    /\ sret' = NoCall
    /\ UNCHANGED <<callbacks, monitoring_task, shutdown_sender, caller, devices>>

\* MonitoringClone::update_device_list: the diff, and the return
LoopDiff(t) ==
    /\ tasks[t].pc = "locked"
    /\ \E order \in RemovalOrders(devices, tasks[t].new_devices) :
           LET r == update_device_list(devices, tasks[t].new_devices, order) IN
               /\ devices' = r.devices
               /\ tasks' = [tasks EXCEPT
                               ![t] = AfterDiff(@, r, @.callbacks, callbacks, "loop_top")]
    /\ devices_lock' = guard_dropped(t)
    /\ sret' = NoCall
    /\ UNCHANGED <<callbacks, monitoring_task, shutdown_sender, caller>>

\* MonitoringClone::notify_callbacks: one callback on one event
LoopInvoke(t) ==
    /\ tasks[t].pc = "dispatch"
    /\ \E b \in Behaviours :
           tasks' = [tasks EXCEPT ![t] = Invoke(@, @.callbacks, b, "loop_top")]
    /\ sret' = NoCall
    /\ UNCHANGED <<callbacks, monitoring_task, shutdown_sender, caller,
                   devices_lock, devices>>

\* the callback being run calls get_current_devices: self.devices.lock()
LoopCallbackSnapshot(t) ==
    /\ tasks[t].pc = "dispatch"
    /\ devices_lock = None
    /\ devices_lock' = Some(t)
    /\ tasks' = [tasks EXCEPT ![t].pc = "cb_snapshot"]
    /\ sret' = NoCall
    /\ UNCHANGED <<callbacks, monitoring_task, shutdown_sender, caller, devices>>

\* get_current_devices returns to the callback
LoopCallbackSnapshotReturn(t) ==
    /\ tasks[t].pc = "cb_snapshot"
    /\ devices_lock' = guard_dropped(t)
    /\ tasks' = [tasks EXCEPT ![t].pc = "dispatch"]
    /\ sret' = NoCall
    /\ UNCHANGED <<callbacks, monitoring_task, shutdown_sender, caller, devices>>

\* back in select!, shutdown_receiver is ready: break
LoopShutdown(t) ==
    /\ tasks[t].pc = "loop_top"
    /\ tasks[t].signalled
    /\ tasks' = [tasks EXCEPT ![t] = Dropped(@, "finished")]
    /\ sret' = NoCall
    /\ UNCHANGED <<callbacks, monitoring_task, shutdown_sender, caller,
                   devices_lock, devices>>

\* back in select!, the next tick is due already (the pass outlasted the
\* interval) and the select takes that arm: the running task begins the next
\* pass without having been suspended
LoopTickDue(t) ==
    /\ tasks[t].pc = "loop_top"
    /\ tasks' = [tasks EXCEPT ![t] = [PassOver(@, "scanning") EXCEPT !.new_devices = <<>>]]
    /\ sret' = NoCall
    /\ UNCHANGED <<callbacks, monitoring_task, shutdown_sender, caller,
                   devices_lock, devices>>

\* back in select!, no arm is ready: the task is suspended until the next tick
LoopAwait(t) ==
    /\ tasks[t].pc = "loop_top"
    /\ tasks' = [tasks EXCEPT ![t] = PassOver(@, "select")]
    /\ sret' = NoCall
    /\ UNCHANGED <<callbacks, monitoring_task, shutdown_sender, caller,
                   devices_lock, devices>>

\* One step of the loop task t.
LoopNext(t) ==
    \/ LoopTick(t)
    \/ LoopCancel(t)
    \/ LoopScanned(t)
    \/ LoopLock(t)
    \/ LoopDiff(t)
    \/ LoopInvoke(t)
    \/ LoopCallbackSnapshot(t)
    \/ LoopCallbackSnapshotReturn(t)
    \/ LoopShutdown(t)
    \/ LoopTickDue(t)
    \/ LoopAwait(t)

(***************************************************************************)
(* update_device_list one iteration at a time, and get_current_devices     *)
(* beside it (crates/core/src/device_monitor.rs)                           *)
(***************************************************************************)
\* The thread that runs the passes of SpecSnapshot: the first monitoring loop.
DiffOwner == 1

\* The devices the scans of SpecSnapshot report: either id, at either level.
SnapshotDevice(id, level) == update_battery(GateDevice(id), Some(level), 0)

\* The scan lists over the ids S, in any order.
SnapshotListsOver(S) ==
    {[i \in 1..Cardinality(S) |-> SnapshotDevice(o[i], f[o[i]])] :
        o \in Orders(S), f \in [S -> Levels]}

\* The scan lists of SpecSnapshot, over every set S of ids.
SnapshotScanLists == UNION {SnapshotListsOver(S) : S \in SUBSET DeviceIds}

\* scan_all_devices returns a list
SnapshotScan ==
    /\ pc = "idle"
    /\ now < MaxPasses
    /\ now' = now + 1
    /\ \E list \in SnapshotScanLists : new_devices' = list
    /\ pc' = "scanned"
    /\ UNCHANGED <<devices, events, before, devices_lock, diff>>

\* update_device_list: let mut devices = self.devices.lock().unwrap();
\* events and current_device_ids start empty
DiffLock ==
    /\ pc = "scanned"
    /\ devices_lock = None
    /\ devices_lock' = Some(DiffOwner)
    /\ diff' = [stage |-> "drain", current_device_ids |-> {}, removed_devices |-> <<>>]
    /\ events' = <<>>
    /\ before' = devices
    /\ pc' = "diffing"
    /\ UNCHANGED <<devices, new_devices, now>>

\* one iteration of `for device in new_devices.drain(..)`
DiffDevice ==
    /\ pc = "diffing"
    /\ diff.stage = "drain"
    /\ new_devices # <<>>
    /\ LET r == ProcessDevice([devices |-> devices, events |-> events], Head(new_devices)) IN
           /\ devices' = r.devices
           /\ events' = r.events
    /\ diff' = [diff EXCEPT !.current_device_ids = @ \cup {Head(new_devices).id}]
    /\ new_devices' = Tail(new_devices)
    /\ UNCHANGED <<before, pc, now, devices_lock>>

\* let removed_devices: Vec<String> = devices.keys().filter(..).cloned().collect()
DiffCollectRemoved ==
    /\ pc = "diffing"
    /\ diff.stage = "drain"
    /\ new_devices = <<>>
    /\ \E order \in Orders(RemovedDevices(devices, diff.current_device_ids)) :
           diff' = [diff EXCEPT !.stage = "remove", !.removed_devices = order]
    /\ UNCHANGED <<devices, new_devices, events, before, pc, now, devices_lock>>

\* one iteration of `for device_id in removed_devices`
DiffRemove ==
    /\ pc = "diffing"
    /\ diff.stage = "remove"
    /\ diff.removed_devices # <<>>
    /\ LET r == RemoveDevice([devices |-> devices, events |-> events],
                             Head(diff.removed_devices)) IN
           /\ devices' = r.devices
           /\ events' = r.events
    /\ diff' = [diff EXCEPT !.removed_devices = Tail(@)]
    /\ UNCHANGED <<new_devices, before, pc, now, devices_lock>>

\* update_device_list returns events: the guard is dropped
DiffReturn ==
    /\ pc = "diffing"
    /\ diff.stage = "remove"
    /\ diff.removed_devices = <<>>
    /\ devices_lock' = guard_dropped(DiffOwner)
    /\ diff' = NoDiff
    /\ pc' = "diffed"
    /\ UNCHANGED <<devices, new_devices, events, before, now>>

\* for event in events { self.notify_callbacks(event) }
SnapshotDispatch ==
    /\ Dispatch
    /\ UNCHANGED <<devices_lock, diff>>

(***************************************************************************)
(* BatteryMonitorApp (crates/main/src/app.rs): the event handler, run,     *)
(* perform_maintenance and update_config, beside the monitoring loops      *)
(***************************************************************************)
\* The monitoring loop of SpecApp: a loop that stop_monitoring aborted in
\* its pass ends its pass before the next loop is spawned.
AppLoopIds == {DiffOwner}
AppThreadIds == {CallerId} \cup AppLoopIds

\* Config::default(), without auto_start and the ui section
DefaultThreshold == 20
DefaultConfig == [polling_interval_seconds |-> 30,
                  enabled |-> TRUE,
                  low_battery_threshold |-> DefaultThreshold,
                  show_connect_disconnect |-> TRUE,
                  suppression_minutes |-> 5]

\* The configurations update_config is called with in SpecApp.
LowerThreshold == 10
Configs == {DefaultConfig,
            [polling_interval_seconds |-> 30,
             enabled |-> FALSE,
             low_battery_threshold |-> LowerThreshold,
             show_connect_disconnect |-> FALSE,
             suppression_minutes |-> 1],
            [polling_interval_seconds |-> 30,
             enabled |-> FALSE,
             low_battery_threshold |-> DefaultThreshold,
             show_connect_disconnect |-> TRUE,
             suppression_minutes |-> 1]}

\* A thread between two passes, and a loop that does not run.
IdleAppThread ==
    [pc |-> "idle", in_run |-> FALSE, abort |-> FALSE, new_devices |-> <<>>,
     events |-> <<>>, local |-> None, began |-> None]
NoAppThread == [IdleAppThread EXCEPT !.pc = "none"]

\* No event's handling ended in the last step.
NoEvent == [type |-> "none"]

\* config.suppression_duration(): Duration::from_secs(minutes * 60)
suppression_duration_of(cfg) == cfg.suppression_minutes * 60

\* what set_enabled and set_suppression_duration are called with for the
\* configuration, by new, setup_device_callbacks and update_config
ManagerSettings(cfg) ==
    [enabled |-> cfg.enabled, suppression_duration |-> suppression_duration_of(cfg)]

\* BatteryMonitorApp::new: the map is empty, no lock is held, monitoring has
\* not been started; new sets up self.notification_manager and
\* setup_device_callbacks the callback's manager, each from the config
AppInit ==
    /\ app_devices = EmptyMap
    /\ config = DefaultConfig
    /\ app_locks = [devices |-> None, config |-> None, notification_manager |-> None]
    /\ app_threads = [t \in AppThreadIds |-> IF t = CallerId THEN IdleAppThread
                                                             ELSE NoAppThread]
    /\ current_loop = None
    /\ handled = NoEvent
    /\ is_running = FALSE
    /\ managers = [notification_manager |-> ManagerSettings(DefaultConfig),
                   callback_notification_manager |-> ManagerSettings(DefaultConfig)]
    /\ app_ret = [op |-> "new", result |-> Ok("()")]
    /\ cfg_ret = [op |-> "none"]

\* The device the scans of SpecApp report when it is there, at either level.
LowLevel == 18
HighLevel == 50
AppLevels == {LowLevel, HighLevel}
AppDevice(level) == update_battery(SchedDevice, Some(level), 0)

\* What scan_all_devices may return in SpecApp.
AppLists == {<<>>} \cup {<<AppDevice(l)>> : l \in AppLevels}

\* The loops no task runs.
FreeLoops(threads) == {l \in AppLoopIds : threads[l].pc = "none"}

\* stop_monitoring: the task monitoring_task refers to is aborted; a loop
\* waiting for its tick ends there, a loop in its pass ends once the pass is over
stop_loop(threads, loop) ==
    IF loop = None THEN threads
    ELSE IF threads[Unwrap(loop)].pc = "idle"
         THEN [threads EXCEPT ![Unwrap(loop)] = NoAppThread]
         ELSE [threads EXCEPT ![Unwrap(loop)].abort = TRUE]

\* the locks an arm of handle_device_event takes after the map's guard is
\* dropped, manager first in the BatteryChanged arm
HandlerLocksManagerFirst(event) ==
    IF event.type = "BatteryChanged"
    THEN <<"notification_manager", "config">>
    ELSE <<"config", "notification_manager">>

\* the locks an arm of handle_device_event takes after the map's guard is
\* dropped, in the order in which it takes them: config.lock(), then
\* notification_manager.lock()
HandlerLocks(event) == <<"config", "notification_manager">>

\* what the arm does with the application's map: the map afterwards and the
\* local the arm binds (removed_device, device)
HandlerMap(map, event) ==
    CASE event.type = "DeviceAdded" ->
             [devices |-> MapInsert(map, event.device.id, event.device),
              local |-> Some(event.device)]
      [] event.type = "DeviceUpdated" ->
             [devices |-> MapInsert(map, event.device.id, event.device),
              local |-> None]
      [] event.type = "DeviceRemoved" ->
             [devices |-> MapRemove(map, event.id),
              local |-> IF event.id \in DOMAIN map THEN Some(map[event.id]) ELSE None]
      [] event.type = "BatteryChanged" ->
             [devices |-> map,
              local |-> IF event.id \in DOMAIN map THEN Some(map[event.id]) ELSE None]

\* the arm goes on to lock the config
HandlerGoesOn(event, local) ==
    CASE event.type = "DeviceAdded" -> TRUE
      [] event.type = "DeviceUpdated" -> FALSE
      [] event.type = "DeviceRemoved" -> IsSome(local)
      [] event.type = "BatteryChanged" -> IsSome(local)

\* the test of the arm under the config's guard
HandlerTest(event, cfg) ==
    IF event.type = "BatteryChanged"
    THEN event.level <= cfg.low_battery_threshold
    ELSE cfg.show_connect_disconnect

\* the notification the arm hands to nm.send_notification
HandlerNotification(event, local, cfg) ==
    CASE event.type = "DeviceAdded" ->
             [kind |-> "DeviceConnected", device |-> event.device]
      [] event.type = "DeviceRemoved" ->
             [kind |-> "DeviceDisconnected", device |-> Unwrap(local)]
      [] event.type = "BatteryChanged" ->
             [kind |-> "LowBattery", device |-> Unwrap(local),
              threshold |-> cfg.low_battery_threshold]

\* handle_device_event returns; the loop of notify_callbacks goes on
EventDone(t, sent) ==
    LET th == app_threads[t]
        rest == Tail(th.events) IN
        /\ app_threads' = [app_threads EXCEPT
               ![t] = [th EXCEPT !.events = rest, !.local = None,
                                 !.pc = IF rest = <<>> THEN "dispatched"
                                                       ELSE "dispatching"]]
        /\ handled' = [type |-> "handled", thread |-> t, event |-> Head(th.events),
                       began |-> th.began, sends |-> sent,
                       gate |-> managers.callback_notification_manager]

\* self.scan_all_devices().await returns a list: the tick arm of
\* monitoring_loop, or refresh_devices called by perform_maintenance
AppScan(t) ==
    /\ app_threads[t].pc = "idle"
    /\ t = CallerId => app_threads[t].in_run
    /\ \E list \in AppLists :
           app_threads' = [app_threads EXCEPT ![t].pc = "scanned",
                                              ![t].new_devices = list]
    /\ handled' = NoEvent
    /\ UNCHANGED <<devices, devices_lock, app_devices, config, app_locks, current_loop,
                   is_running, managers, app_ret>>

\* update_device_list: self.devices.lock().unwrap()
AppDiffLock(t) ==
    /\ app_threads[t].pc = "scanned"
    /\ devices_lock = None
    /\ devices_lock' = Some(t)
    /\ app_threads' = [app_threads EXCEPT ![t].pc = "diffing"]
    /\ handled' = NoEvent
    /\ UNCHANGED <<devices, app_devices, config, app_locks, current_loop,
                   is_running, managers, app_ret>>

\* update_device_list returns the events; the guard is dropped
AppDiff(t) ==
    /\ app_threads[t].pc = "diffing"
    /\ \E order \in RemovalOrders(devices, app_threads[t].new_devices) :
           LET r == update_device_list(devices, app_threads[t].new_devices, order) IN
               /\ devices' = r.devices
               /\ app_threads' = [app_threads EXCEPT
                      ![t].pc = IF r.events = <<>> THEN "dispatched" ELSE "dispatching",
                      ![t].events = r.events,
                      ![t].began = IF app_devices = devices THEN Some(devices)
                                                            ELSE None,
                      ![t].new_devices = <<>>]
    /\ devices_lock' = guard_dropped(t)
    /\ handled' = NoEvent
    /\ UNCHANGED <<app_devices, config, app_locks, current_loop,
                   is_running, managers, app_ret>>

\* handle_device_event: devices.lock().unwrap()
HandlerLockDevices(t) ==
    /\ app_threads[t].pc = "dispatching"
    /\ app_locks.devices = None
    /\ app_locks' = [app_locks EXCEPT !.devices = Some(t)]
    /\ app_threads' = [app_threads EXCEPT ![t].pc = "map_locked"]
    /\ handled' = NoEvent
    /\ UNCHANGED <<devices, devices_lock, app_devices, config, current_loop,
                   is_running, managers, app_ret>>

\* the arm's insert, remove or get; the block ends and the guard is dropped
HandlerDevices(t) ==
    LET th == app_threads[t]
        r == HandlerMap(app_devices, Head(th.events)) IN
        /\ th.pc = "map_locked"
        /\ app_devices' = r.devices
        /\ app_locks' = [app_locks EXCEPT !.devices = None]
        /\ IF HandlerGoesOn(Head(th.events), r.local)
           THEN /\ app_threads' = [app_threads EXCEPT ![t].pc = "map_done",
                                                      ![t].local = r.local]
                /\ handled' = NoEvent
           ELSE EventDone(t, <<>>)
        /\ UNCHANGED <<devices, devices_lock, config, current_loop,
                       is_running, managers, app_ret>>

\* let config_guard = config.lock().unwrap()
HandlerLockConfig(t) ==
    LET th == app_threads[t]
        lock == HandlerLocks(Head(th.events))[1] IN
        /\ th.pc = "map_done"
        /\ app_locks[lock] = None
        /\ app_locks' = [app_locks EXCEPT ![lock] = Some(t)]
        /\ app_threads' = [app_threads EXCEPT ![t].pc = "config_locked"]
        /\ handled' = NoEvent
        /\ UNCHANGED <<devices, devices_lock, app_devices, config, current_loop,
                       is_running, managers, app_ret>>

\* the test holds: let mut nm = notification_manager.lock().unwrap()
HandlerLockManager(t) ==
    LET th == app_threads[t]
        lock == HandlerLocks(Head(th.events))[2] IN
        /\ th.pc = "config_locked"
        /\ HandlerTest(Head(th.events), config)
        /\ app_locks[lock] = None
        /\ app_locks' = [app_locks EXCEPT ![lock] = Some(t)]
        /\ app_threads' = [app_threads EXCEPT ![t].pc = "manager_locked"]
        /\ handled' = NoEvent
        /\ UNCHANGED <<devices, devices_lock, app_devices, config, current_loop,
                       is_running, managers, app_ret>>

\* the test fails: the arm ends and config_guard is dropped
HandlerSkip(t) ==
    LET th == app_threads[t]
        lock == HandlerLocks(Head(th.events))[1] IN
        /\ th.pc = "config_locked"
        /\ ~HandlerTest(Head(th.events), config)
        /\ app_locks' = [app_locks EXCEPT ![lock] = None]
        /\ EventDone(t, <<>>)
        /\ UNCHANGED <<devices, devices_lock, app_devices, config, current_loop,
                       is_running, managers, app_ret>>

\* nm.send_notification(..); nm and config_guard are dropped
HandlerSend(t) ==
    LET th == app_threads[t] IN
        /\ th.pc = "manager_locked"
        /\ app_locks' = [app_locks EXCEPT !.config = None,
                                          !.notification_manager = None]
        /\ EventDone(t, <<HandlerNotification(Head(th.events), th.local, config)>>)
        /\ UNCHANGED <<devices, devices_lock, app_devices, config, current_loop,
                       is_running, managers, app_ret>>

\* the pass of a monitoring loop is over: the loop is back at its select!,
\* where an abort takes effect
LoopPassEnd(t) ==
    /\ t \in AppLoopIds
    /\ app_threads[t].pc = "dispatched"
    /\ app_threads' = [app_threads EXCEPT
           ![t] = IF app_threads[t].abort THEN NoAppThread ELSE IdleAppThread]
    /\ handled' = NoEvent
    /\ UNCHANGED <<devices, devices_lock, app_devices, config, app_locks, current_loop,
                   is_running, managers, app_ret>>

\* perform_maintenance: refresh_devices has returned;
\* let devices = self.devices.lock().unwrap()
MaintenanceLock ==
    /\ app_threads[CallerId].pc = "dispatched"
    /\ app_locks.devices = None
    /\ app_locks' = [app_locks EXCEPT !.devices = Some(CallerId)]
    /\ app_threads' = [app_threads EXCEPT
           ![CallerId] = [IdleAppThread EXCEPT !.pc = "maintenance", !.in_run = TRUE]]
    /\ handled' = NoEvent
    /\ UNCHANGED <<devices, devices_lock, app_devices, config, current_loop,
                   is_running, managers, app_ret>>

\* perform_maintenance returns; the guard is dropped
MaintenanceReturn ==
    /\ app_threads[CallerId].pc = "maintenance"
    /\ app_locks' = [app_locks EXCEPT !.devices = None]
    /\ app_threads' = [app_threads EXCEPT ![CallerId].pc = "idle"]
    /\ handled' = NoEvent
    /\ UNCHANGED <<devices, devices_lock, app_devices, config, current_loop,
                   is_running, managers, app_ret>>

\* run with is_running set: return Err(AppError::AlreadyRunning)
AppRunAlreadyRunning ==
    /\ app_threads[CallerId].pc = "idle"
    /\ ~app_threads[CallerId].in_run
    /\ is_running
    /\ app_ret' = [op |-> "run", result |-> Err("AlreadyRunning")]
    /\ handled' = NoEvent
    /\ UNCHANGED <<devices, devices_lock, app_devices, config, app_locks, app_threads,
                   current_loop, is_running, managers>>

\* run: *is_running = true; let config = self.config.lock().unwrap() for the
\* polling interval
AppRun ==
    /\ app_threads[CallerId].pc = "idle"
    /\ ~app_threads[CallerId].in_run
    /\ ~is_running
    /\ is_running' = TRUE
    /\ app_locks.config = None
    /\ app_locks' = [app_locks EXCEPT !.config = Some(CallerId)]
    /\ app_threads' = [app_threads EXCEPT ![CallerId].pc = "run_config"]
    /\ handled' = NoEvent
    /\ UNCHANGED <<devices, devices_lock, app_devices, config, current_loop, managers,
                   app_ret>>

\* config.polling_interval(); the guard is dropped
AppRunInterval ==
    /\ app_threads[CallerId].pc = "run_config"
    /\ app_locks' = [app_locks EXCEPT !.config = None]
    /\ app_threads' = [app_threads EXCEPT ![CallerId].pc = "run_start"]
    /\ handled' = NoEvent
    /\ UNCHANGED <<devices, devices_lock, app_devices, config, current_loop,
                   is_running, managers, app_ret>>

\* self.device_monitor.start_monitoring(polling_interval)?: a loop is spawned
\* and run enters its own loop, or monitoring runs already and `?` returns
\* the error from run, is_running being left as it is
AppRunStart ==
    /\ app_threads[CallerId].pc = "run_start"
    /\ IF current_loop = None
       THEN \E l \in FreeLoops(app_threads) :
               /\ app_threads' = [app_threads EXCEPT
                      ![CallerId].pc = "idle", ![CallerId].in_run = TRUE,
                      ![l] = IdleAppThread]
               /\ current_loop' = Some(l)
               /\ UNCHANGED app_ret
       ELSE /\ app_threads' = [app_threads EXCEPT ![CallerId].pc = "idle"]
            /\ app_ret' = [op |-> "run", result |-> Err("MonitorAlreadyRunning")]
            /\ UNCHANGED current_loop
    /\ handled' = NoEvent
    /\ UNCHANGED <<devices, devices_lock, app_devices, config, app_locks, is_running,
                   managers>>

\* run's shutdown arm breaks the loop and run stops monitoring, clears
\* is_running and returns Ok; or shutdown() is called on an application that
\* is not in run: stop_monitoring, *is_running = false
AppShutdown ==
    /\ app_threads[CallerId].pc = "idle"
    /\ app_threads' = [stop_loop(app_threads, current_loop) EXCEPT
                           ![CallerId].in_run = FALSE]
    /\ current_loop' = None
    /\ is_running' = FALSE
    /\ app_ret' = [op |-> IF app_threads[CallerId].in_run THEN "run" ELSE "shutdown",
                   result |-> Ok("()")]
    /\ handled' = NoEvent
    /\ UNCHANGED <<devices, devices_lock, app_devices, config, app_locks, managers>>

\* update_config(new_config): let mut config = self.config.lock().unwrap()
UpdateConfigLock ==
    /\ app_threads[CallerId].pc = "idle"
    /\ ~app_threads[CallerId].in_run
    /\ app_locks.config = None
    /\ app_locks' = [app_locks EXCEPT !.config = Some(CallerId)]
    /\ \E new_config \in Configs :
           app_threads' = [app_threads EXCEPT ![CallerId].pc = "update_config",
                                              ![CallerId].local = Some(new_config)]
    /\ handled' = NoEvent
    /\ UNCHANGED <<devices, devices_lock, app_devices, config, current_loop,
                   is_running, managers, app_ret>>

\* *config = new_config.clone(); the guard is dropped;
\* self.notification_manager.set_enabled(..) and set_suppression_duration(..):
\* the manager of the application, which no lock guards and which is not
\* the manager the handler sends through
UpdateConfigStore ==
    /\ app_threads[CallerId].pc = "update_config"
    /\ config' = Unwrap(app_threads[CallerId].local)
    /\ managers' = [managers EXCEPT !.notification_manager = ManagerSettings(config')]
    /\ app_locks' = [app_locks EXCEPT !.config = None]
    /\ app_threads' = [app_threads EXCEPT ![CallerId].pc = "update_restart",
                                          ![CallerId].local = None]
    /\ handled' = NoEvent
    /\ UNCHANGED <<devices, devices_lock, app_devices, current_loop, is_running,
                   app_ret>>

\* self.device_monitor.stop_monitoring();
\* self.device_monitor.start_monitoring(..)?; Ok(())
UpdateConfigRestart ==
    /\ app_threads[CallerId].pc = "update_restart"
    /\ LET stopped == stop_loop(app_threads, current_loop) IN
           \E l \in FreeLoops(stopped) :
               /\ app_threads' = [stopped EXCEPT ![CallerId].pc = "idle",
                                                 ![l] = IdleAppThread]
               /\ current_loop' = Some(l)
    /\ app_ret' = [op |-> "update_config", result |-> Ok("()"), new_config |-> config]
    /\ handled' = NoEvent
    /\ UNCHANGED <<devices, devices_lock, app_devices, config, app_locks, is_running,
                   managers>>

\* The steps of thread t in its pass.
AppPass(t) ==
    \/ AppScan(t)
    \/ AppDiffLock(t)
    \/ AppDiff(t)
    \/ HandlerLockDevices(t)
    \/ HandlerDevices(t)
    \/ HandlerLockConfig(t)
    \/ HandlerLockManager(t)
    \/ HandlerSkip(t)
    \/ HandlerSend(t)

(***************************************************************************)
(* Config's setters and FileConfigManager::validate_config                 *)
(* (crates/config/src/lib.rs)                                              *)
(***************************************************************************)
\* set_polling_interval accepting everything
set_polling_interval_unchecked(cfg, seconds) ==
    [cfg |-> [cfg EXCEPT !.polling_interval_seconds = seconds], result |-> Ok("()")]

\* set_polling_interval(seconds): the configuration afterwards and the Result
set_polling_interval(cfg, seconds) ==
    IF seconds < 5 \/ seconds > 300
    THEN [cfg |-> cfg, result |-> Err("ValidationError")]
    ELSE [cfg |-> [cfg EXCEPT !.polling_interval_seconds = seconds], result |-> Ok("()")]

\* set_low_battery_threshold(threshold)
set_low_battery_threshold(cfg, threshold) ==
    IF threshold < 1 \/ threshold > 99
    THEN [cfg |-> cfg, result |-> Err("ValidationError")]
    ELSE [cfg |-> [cfg EXCEPT !.low_battery_threshold = threshold], result |-> Ok("()")]

\* set_suppression_minutes(minutes)
set_suppression_minutes(cfg, minutes) ==
    IF minutes < 1 \/ minutes > 60
    THEN [cfg |-> cfg, result |-> Err("ValidationError")]
    ELSE [cfg |-> [cfg EXCEPT !.suppression_minutes = minutes], result |-> Ok("()")]

\* FileConfigManager::validate_config(config)
validate_config(cfg) ==
    IF cfg.polling_interval_seconds < 5 \/ cfg.polling_interval_seconds > 300
    THEN Err("ValidationError")
    ELSE IF cfg.low_battery_threshold < 1 \/ cfg.low_battery_threshold > 99
    THEN Err("ValidationError")
    ELSE IF cfg.suppression_minutes < 1 \/ cfg.suppression_minutes > 60
    THEN Err("ValidationError")
    ELSE Ok("()")

\* The values the setters are called with in SpecConfig: the ends of each
\* range and their neighbours outside it (a u8 for the threshold).
PollingInputs == {0, 4, 5, 300, 301}
ThresholdInputs == {0, 1, 99, 100, 255}
SuppressionInputs == {0, 1, 60, 61}

\* The configurations validate_config is called on: any of the values above
\* or a default in each of the three fields.
ValidatedConfigs ==
    {[DefaultConfig EXCEPT !.polling_interval_seconds = p,
                           !.low_battery_threshold = t,
                           !.suppression_minutes = m] :
        p \in PollingInputs \cup {DefaultConfig.polling_interval_seconds},
        t \in ThresholdInputs \cup {DefaultConfig.low_battery_threshold},
        m \in SuppressionInputs \cup {DefaultConfig.suppression_minutes}}

\* config.set_polling_interval(seconds)
SetPollingInterval ==
    \E seconds \in PollingInputs :
        LET r == set_polling_interval(config, seconds) IN
            /\ config' = r.cfg
            /\ cfg_ret' = [op |-> "set_polling_interval", value |-> seconds,
                           result |-> r.result, before |-> config]

\* config.set_low_battery_threshold(threshold)
SetLowBatteryThreshold ==
    \E threshold \in ThresholdInputs :
        LET r == set_low_battery_threshold(config, threshold) IN
            /\ config' = r.cfg
            /\ cfg_ret' = [op |-> "set_low_battery_threshold", value |-> threshold,
                           result |-> r.result, before |-> config]

\* config.set_suppression_minutes(minutes)
SetSuppressionMinutes ==
    \E minutes \in SuppressionInputs :
        LET r == set_suppression_minutes(config, minutes) IN
            /\ config' = r.cfg
            /\ cfg_ret' = [op |-> "set_suppression_minutes", value |-> minutes,
                           result |-> r.result, before |-> config]

\* FileConfigManager::validate_config(&candidate), as load and save call it
ValidateConfig ==
    \E candidate \in ValidatedConfigs :
        /\ cfg_ret' = [op |-> "validate_config", value |-> candidate,
                       result |-> validate_config(candidate), before |-> config]
        /\ UNCHANGED config

(***************************************************************************)
(* Specification of the passes over bounded scan lists                     *)
(***************************************************************************)
LogInit == appended = <<>>

\* no scan_all_devices call is in progress
ScanAllInit ==
    /\ bluetooth_result = Ok(<<>>)
    /\ usb_result = Ok(<<>>)
    /\ scan_result = None

Init == RegInit /\ GateInit /\ LogInit /\ ScanAllInit /\ SchedInit /\ IoInit /\ AppInit

Next ==
    \/ Scan /\ UNCHANGED <<gateVars, logVars, scanAllVars, schedVars, ioVars>>
    \/ Diff /\ UNCHANGED <<gateVars, logVars, scanAllVars, schedVars, ioVars>>
    \/ Dispatch /\ UNCHANGED <<gateVars, logVars, scanAllVars, schedVars, ioVars>>

Spec == Init /\ [][Next]_vars

(***************************************************************************)
(* Specification of the passes over the lists the sources build            *)
(***************************************************************************)
NextScan ==
    \/ ScanSources /\ UNCHANGED <<gateVars, logVars, scanAllVars, schedVars, ioVars>>
    \/ Diff /\ UNCHANGED <<gateVars, logVars, scanAllVars, schedVars, ioVars>>
    \/ Dispatch /\ UNCHANGED <<gateVars, logVars, scanAllVars, schedVars, ioVars>>

SpecScan == Init /\ [][NextScan]_vars

(***************************************************************************)
(* Specification of the passes over what the sources read from the stack   *)
(* and from the files                                                      *)
(***************************************************************************)
filesRest == <<gateVars, logVars, scanAllVars, schedVars, snapVars, appVars, extVars>>

\* the pass over, what its scan read is forgotten
DispatchFiles == Dispatch /\ sources' = NotRead /\ UNCHANGED <<connection, bt_ret>>

NextFiles ==
    \/ ScanFiles /\ UNCHANGED <<filesRest, connection, bt_ret>>
    \/ Diff /\ UNCHANGED <<filesRest, ioVars>>
    \/ DispatchFiles /\ UNCHANGED filesRest

SpecFiles == Init /\ [][NextFiles]_vars

(***************************************************************************)
(* Specification of the Bluetooth scanner's scans                          *)
(***************************************************************************)
NextBluetooth ==
    BluetoothScan /\ UNCHANGED <<devices, new_devices, events, before, pc, sources,
                                 gateVars, logVars, scanAllVars, schedVars, snapVars, appVars,
                                 extVars>>

SpecBluetooth == Init /\ [][NextBluetooth]_vars

(***************************************************************************)
(* Specification of get_current_devices beside the passes, the diff taken  *)
(* one iteration at a time                                                 *)
(***************************************************************************)
snapshotRest == <<gateVars, logVars, scanAllVars, sources, connection, bt_ret,
                  appVars, extVars, callbacks, monitoring_task, shutdown_sender, tasks>>

\* what the steps of the passing thread leave alone
callerRest == <<caller, sret, snapshot, snapshotRest>>

\* once update_device_list has returned the registry holds the pass's result
DiffReturnCommitted ==
    /\ DiffReturn
    /\ committed' = committed \cup {get_current_devices(devices)}

\* get_current_devices returns devices.values().cloned().collect()
GetCurrentDevicesCopied ==
    /\ GetCurrentDevicesReturn
    /\ snapshot' = Some(get_current_devices(devices))

NextSnapshot ==
    \/ SnapshotScan /\ UNCHANGED <<callerRest, committed>>
    \/ DiffLock /\ UNCHANGED <<callerRest, committed>>
    \/ DiffDevice /\ UNCHANGED <<callerRest, committed>>
    \/ DiffCollectRemoved /\ UNCHANGED <<callerRest, committed>>
    \/ DiffRemove /\ UNCHANGED <<callerRest, committed>>
    \/ DiffReturnCommitted /\ UNCHANGED callerRest
    \/ SnapshotDispatch /\ UNCHANGED <<callerRest, committed>>
    \/ GetCurrentDevices
           /\ UNCHANGED <<new_devices, events, before, pc, now, snapVars, snapshotRest>>
    \/ GetCurrentDevicesCopied
           /\ UNCHANGED <<new_devices, events, before, pc, now, diff, committed,
                          gateVars, logVars, scanAllVars, sources, connection, bt_ret,
                          appVars, extVars>>

SpecSnapshot == Init /\ [][NextSnapshot]_vars

(***************************************************************************)
(* Specification of the application: the handler under the passes of the   *)
(* monitoring loops and of perform_maintenance, run and update_config      *)
(***************************************************************************)
appRest == <<new_devices, events, before, pc, now, gateVars, logVars, scanAllVars,
             callbacks, monitoring_task, shutdown_sender, tasks, caller, sret,
             sources, connection, bt_ret, snapVars, extVars>>

NextApp ==
    \/ \E t \in AppThreadIds : AppPass(t) /\ UNCHANGED appRest
    \/ \E t \in AppLoopIds : LoopPassEnd(t) /\ UNCHANGED appRest
    \/ MaintenanceLock /\ UNCHANGED appRest
    \/ MaintenanceReturn /\ UNCHANGED appRest
    \/ AppRun /\ UNCHANGED appRest
    \/ AppRunAlreadyRunning /\ UNCHANGED appRest
    \/ AppRunInterval /\ UNCHANGED appRest
    \/ AppRunStart /\ UNCHANGED appRest
    \/ AppShutdown /\ UNCHANGED appRest
    \/ UpdateConfigLock /\ UNCHANGED appRest
    \/ UpdateConfigStore /\ UNCHANGED appRest
    \/ UpdateConfigRestart /\ UNCHANGED appRest

SpecApp == Init /\ [][NextApp]_vars

(***************************************************************************)
(* Specification of the configuration under its setters and validation     *)
(***************************************************************************)
configRest == <<regVars, gateVars, logVars, scanAllVars, schedVars, sources,
                connection, bt_ret, snapVars, app_devices, app_locks, app_threads,
                current_loop, handled, is_running, managers, app_ret>>

NextConfig ==
    \/ SetPollingInterval /\ UNCHANGED configRest
    \/ SetLowBatteryThreshold /\ UNCHANGED configRest
    \/ SetSuppressionMinutes /\ UNCHANGED configRest
    \/ ValidateConfig /\ UNCHANGED configRest

SpecConfig == Init /\ [][NextConfig]_vars

(***************************************************************************)
(* Specification of the notification gate                                  *)
(***************************************************************************)
NextGate ==
    \/ SendNotification /\ UNCHANGED <<regVars, logVars, scanAllVars, schedVars, ioVars>>
    \/ SetEnabled /\ UNCHANGED <<regVars, logVars, scanAllVars, schedVars, ioVars>>
    \/ SetSuppressionDuration /\ UNCHANGED <<regVars, logVars, scanAllVars, schedVars, ioVars>>
    \/ ClearLog /\ UNCHANGED <<regVars, logVars, scanAllVars, schedVars, ioVars>>
    \/ Tick /\ UNCHANGED <<regVars, logVars, scanAllVars, schedVars, ioVars>>

SpecGate == Init /\ [][NextGate]_vars

(***************************************************************************)
(* Specification of the audit log: the gate with a log of LogCapacity      *)
(* records, the records handed to it being remembered in `appended`        *)
(***************************************************************************)
InitLog ==
    /\ RegInit
    /\ enabled = NewManager.enabled
    /\ suppression_duration = NewManager.suppression_duration
    /\ notification_log = NewManager.notification_log
    /\ last_low_battery_alert = NewManager.last_low_battery_alert
    /\ last_connection_alert = NewManager.last_connection_alert
    /\ max_log_size = LogCapacity
    /\ clock = 0
    /\ ret = [op |-> "none"]
    /\ hist = [last |-> None, sent_at |-> EmptyMap]
    /\ LogInit
    /\ ScanAllInit
    /\ SchedInit
    /\ IoInit /\ AppInit

\* send_notification; the call hands one record to the log, unsent unless
\* the outcome is Sent
LogSend ==
    /\ Len(appended) < MaxAppended
    /\ SendNotification
    /\ appended' = Append(appended,
                          NotificationRecord(clock, ret'.notification,
                                             ret'.outcome = "Sent"))

\* self.add_to_log(notification_type, sent) by itself
LogAdd ==
    /\ Len(appended) < MaxAppended
    /\ \E notification \in Notifications, sent \in BOOLEAN :
           /\ StoreManager(add_to_log(Manager, notification, sent, clock))
           /\ appended' = Append(appended,
                                 NotificationRecord(clock, notification, sent))
    /\ ret' = [op |-> "add_to_log"]
    /\ UNCHANGED <<clock, hist>>

LogClear == ClearLog /\ appended' = <<>>

LogSetEnabled == SetEnabled /\ UNCHANGED appended

NextLog ==
    \/ LogSend /\ UNCHANGED <<regVars, scanAllVars, schedVars, ioVars>>
    \/ LogAdd /\ UNCHANGED <<regVars, scanAllVars, schedVars, ioVars>>
    \/ LogClear /\ UNCHANGED <<regVars, scanAllVars, schedVars, ioVars>>
    \/ LogSetEnabled /\ UNCHANGED <<regVars, scanAllVars, schedVars, ioVars>>

SpecLog == InitLog /\ [][NextLog]_vars

(***************************************************************************)
(* Specification of scan_all_devices over the results of its two sources   *)
(***************************************************************************)
InitScanAll ==
    /\ RegInit /\ GateInit /\ LogInit /\ SchedInit /\ IoInit /\ AppInit
    /\ bluetooth_result \in BluetoothResults
    /\ usb_result \in UsbResults
    /\ scan_result = None

\* self.scan_all_devices().await
ScanAllDevices ==
    /\ scan_result = None
    /\ scan_result' = Some(scan_all_devices(bluetooth_result, usb_result))
    /\ UNCHANGED <<bluetooth_result, usb_result>>

NextScanAll == ScanAllDevices /\ UNCHANGED <<regVars, gateVars, logVars, schedVars, ioVars>>

SpecScanAll == InitScanAll /\ [][NextScanAll]_vars

(***************************************************************************)
(* Specification of the scheduler, started at most MaxStarts times         *)
(***************************************************************************)
schedRest == <<new_devices, events, before, pc, now, gateVars, logVars, scanAllVars,
               ioVars>>

NextSched ==
    \/ Subscribe /\ UNCHANGED schedRest
    \/ StartMonitoring(MaxStarts) /\ UNCHANGED schedRest
    \/ StopMonitoring /\ UNCHANGED schedRest
    \/ GetCurrentDevices /\ UNCHANGED schedRest
    \/ GetCurrentDevicesReturn /\ UNCHANGED schedRest
    \/ RefreshDevices /\ UNCHANGED schedRest
    \/ RefreshScanned /\ UNCHANGED schedRest
    \/ RefreshLock /\ UNCHANGED schedRest
    \/ RefreshDiff /\ UNCHANGED schedRest
    \/ RefreshInvoke /\ UNCHANGED schedRest
    \/ RefreshReturn /\ UNCHANGED schedRest
    \/ \E t \in TaskIds : LoopTick(t) /\ UNCHANGED schedRest
    \/ \E t \in TaskIds : LoopCancel(t) /\ UNCHANGED schedRest
    \/ \E t \in TaskIds : LoopScanned(t) /\ UNCHANGED schedRest
    \/ \E t \in TaskIds : LoopLock(t) /\ UNCHANGED schedRest
    \/ \E t \in TaskIds : LoopDiff(t) /\ UNCHANGED schedRest
    \/ \E t \in TaskIds : LoopInvoke(t) /\ UNCHANGED schedRest
    \/ \E t \in TaskIds : LoopCallbackSnapshot(t) /\ UNCHANGED schedRest
    \/ \E t \in TaskIds : LoopCallbackSnapshotReturn(t) /\ UNCHANGED schedRest
    \/ \E t \in TaskIds : LoopShutdown(t) /\ UNCHANGED schedRest
    \/ \E t \in TaskIds : LoopTickDue(t) /\ UNCHANGED schedRest
    \/ \E t \in TaskIds : LoopAwait(t) /\ UNCHANGED schedRest

SpecSched == Init /\ [][NextSched]_vars

(***************************************************************************)
(* Specification of the scheduler being started again after a stop         *)
(***************************************************************************)
NextRestart ==
    \/ Subscribe /\ UNCHANGED schedRest
    \/ StartMonitoring(MaxTasks) /\ UNCHANGED schedRest
    \/ StopMonitoring /\ UNCHANGED schedRest
    \/ GetCurrentDevices /\ UNCHANGED schedRest
    \/ GetCurrentDevicesReturn /\ UNCHANGED schedRest
    \/ RefreshDevices /\ UNCHANGED schedRest
    \/ RefreshScanned /\ UNCHANGED schedRest
    \/ RefreshLock /\ UNCHANGED schedRest
    \/ RefreshDiff /\ UNCHANGED schedRest
    \/ RefreshInvoke /\ UNCHANGED schedRest
    \/ RefreshReturn /\ UNCHANGED schedRest
    \/ \E t \in TaskIds : LoopTick(t) /\ UNCHANGED schedRest
    \/ \E t \in TaskIds : LoopCancel(t) /\ UNCHANGED schedRest
    \/ \E t \in TaskIds : LoopScanned(t) /\ UNCHANGED schedRest
    \/ \E t \in TaskIds : LoopLock(t) /\ UNCHANGED schedRest
    \/ \E t \in TaskIds : LoopDiff(t) /\ UNCHANGED schedRest
    \/ \E t \in TaskIds : LoopInvoke(t) /\ UNCHANGED schedRest
    \/ \E t \in TaskIds : LoopCallbackSnapshot(t) /\ UNCHANGED schedRest
    \/ \E t \in TaskIds : LoopCallbackSnapshotReturn(t) /\ UNCHANGED schedRest
    \/ \E t \in TaskIds : LoopShutdown(t) /\ UNCHANGED schedRest
    \/ \E t \in TaskIds : LoopTickDue(t) /\ UNCHANGED schedRest
    \/ \E t \in TaskIds : LoopAwait(t) /\ UNCHANGED schedRest

SpecRestart == Init /\ [][NextRestart]_vars

(***************************************************************************)
(* Specification of the scheduler whose owner drops the monitor            *)
(***************************************************************************)
\* The LinuxDeviceMonitor goes out of scope once monitoring has been stopped
\* or was never started (run_daemon: `app` after run or shutdown): the
\* boxed callbacks are freed; nothing waits for the aborted task.
DropMonitor ==
    /\ caller.pc = "idle"
    /\ monitoring_task = None
    /\ caller' = [caller EXCEPT !.pc = "dropped"]
    /\ callbacks' = <<>>
    /\ sret' = [op |-> "drop"]
    /\ UNCHANGED <<monitoring_task, shutdown_sender, tasks, devices_lock, devices>>

\* notify_callbacks through a reference whose Box has been freed: beside
\* running the closure as if it were there (LoopInvoke), the call may fault
LoopInvokeFreed(t) ==
    /\ tasks[t].pc = "dispatch"
    /\ caller.pc = "dropped"
    /\ tasks' = [tasks EXCEPT ![t] = Dropped(@, "faulted")]
    /\ sret' = NoCall
    /\ UNCHANGED <<callbacks, monitoring_task, shutdown_sender, caller,
                   devices_lock, devices>>

NextDrop ==
    \/ Subscribe /\ UNCHANGED schedRest
    \/ StartMonitoring(MaxStarts) /\ UNCHANGED schedRest
    \/ StopMonitoring /\ UNCHANGED schedRest
    \/ DropMonitor /\ UNCHANGED schedRest
    \/ RefreshDevices /\ UNCHANGED schedRest
    \/ RefreshScanned /\ UNCHANGED schedRest
    \/ RefreshLock /\ UNCHANGED schedRest
    \/ RefreshDiff /\ UNCHANGED schedRest
    \/ RefreshInvoke /\ UNCHANGED schedRest
    \/ RefreshReturn /\ UNCHANGED schedRest
    \/ \E t \in TaskIds : LoopTick(t) /\ UNCHANGED schedRest
    \/ \E t \in TaskIds : LoopCancel(t) /\ UNCHANGED schedRest
    \/ \E t \in TaskIds : LoopScanned(t) /\ UNCHANGED schedRest
    \/ \E t \in TaskIds : LoopLock(t) /\ UNCHANGED schedRest
    \/ \E t \in TaskIds : LoopDiff(t) /\ UNCHANGED schedRest
    \/ \E t \in TaskIds : LoopInvoke(t) /\ UNCHANGED schedRest
    \/ \E t \in TaskIds : LoopInvokeFreed(t) /\ UNCHANGED schedRest
    \/ \E t \in TaskIds : LoopShutdown(t) /\ UNCHANGED schedRest
    \/ \E t \in TaskIds : LoopTickDue(t) /\ UNCHANGED schedRest
    \/ \E t \in TaskIds : LoopAwait(t) /\ UNCHANGED schedRest

SpecDrop == Init /\ [][NextDrop]_vars

(***************************************************************************)
(* Properties of one pass, read in the state the diff leaves               *)
(* (pc = "diffed": before, new_devices, events and devices of that pass).  *)
(***************************************************************************)
\* The events of the pass that are about id, in order.
EventsFor(id) == SelectSeq(events, LAMBDA e : EventId(e) = id)

\* The events of the pass that are about id and of the given type, in order.
EventsOfType(id, type) == SelectSeq(events, LAMBDA e : EventId(e) = id /\ e.type = type)

Diffed == pc = "diffed"

\* C1: after update_device_list returns, the ids stored in the registry are
\* exactly the ids of the scan list just applied.
C1_RegistryIdsEqualScanIds ==
    Diffed => DOMAIN devices = CurrentDeviceIds(new_devices)

\* A pass that both drops a tracked id and brings in an untracked one.
C1_Witness ==
    /\ Diffed
    /\ DOMAIN before \ CurrentDeviceIds(new_devices) # {}
    /\ CurrentDeviceIds(new_devices) \ DOMAIN before # {}
    /\ DOMAIN devices = CurrentDeviceIds(new_devices)

\* C3: an incoming record equal to the stored record in every field yields
\* no event for its id and leaves the stored record as it was; a list whose
\* every record equals the stored one, applied to a registry holding exactly
\* those ids (the registry a first application of the list leaves), yields
\* no event at all and the same registry.
C3_IdenticalRecordNoEvent ==
    Diffed =>
        /\ \A i \in DOMAIN new_devices :
               LET d == new_devices[i] IN
                   /\ (d.id \in DOMAIN before /\ before[d.id] = d)
                          => /\ EventsFor(d.id) = <<>>
                             /\ d.id \in DOMAIN devices
                             /\ devices[d.id] = before[d.id]
                   /\ d.id \in DOMAIN devices /\ devices[d.id] = d
        /\ (/\ DOMAIN before = CurrentDeviceIds(new_devices)
            /\ \A i \in DOMAIN new_devices : before[new_devices[i].id] = new_devices[i])
               => events = <<>> /\ devices = before

\* The same two-record list applied to the registry it left.
C3_Witness ==
    /\ Diffed
    /\ Len(new_devices) = 2
    /\ DOMAIN before = CurrentDeviceIds(new_devices)
    /\ \A i \in DOMAIN new_devices : before[new_devices[i].id] = new_devices[i]
    /\ events = <<>>

\* C4: a device whose id the registry did not hold before the pass yields
\* exactly one DeviceAdded for that id, no DeviceUpdated and no
\* BatteryChanged for it, and is stored afterwards.
C4_NewDeviceAddedOnce ==
    Diffed =>
        \A i \in DOMAIN new_devices :
            LET d == new_devices[i] IN
                d.id \notin DOMAIN before
                    => /\ EventsFor(d.id) = <<DeviceAdded(d)>>
                       /\ d.id \in DOMAIN devices
                       /\ devices[d.id] = d

\* An untracked device with a battery level arrives while another is tracked.
C4_Witness ==
    /\ Diffed
    /\ before # EmptyMap
    /\ \E i \in DOMAIN new_devices :
           /\ new_devices[i].id \notin DOMAIN before
           /\ IsSome(new_devices[i].battery_level)
           /\ EventsFor(new_devices[i].id) = <<DeviceAdded(new_devices[i])>>

\* The incoming record d differs from the stored one in battery_level only,
\* both levels being present.
OnlyBatteryDiffers(d) ==
    /\ d.id \in DOMAIN before
    /\ IsSome(before[d.id].battery_level)
    /\ IsSome(d.battery_level)
    /\ before[d.id].battery_level # d.battery_level
    /\ [before[d.id] EXCEPT !.battery_level = d.battery_level] = d

\* C5: a tracked device whose record changes in battery level only, from
\* Some(a) to Some(b), yields BatteryChanged(id, b) then DeviceUpdated and
\* nothing else for that id; and every BatteryChanged of a pass is directly
\* followed by the DeviceUpdated of the same id.
C5_BatteryChangedThenUpdated ==
    Diffed =>
        /\ \A i \in DOMAIN new_devices :
               LET d == new_devices[i] IN
                   OnlyBatteryDiffers(d)
                       => EventsFor(d.id) =
                              <<BatteryChanged(d.id, Unwrap(d.battery_level)),
                                DeviceUpdated(d)>>
        /\ \A j \in DOMAIN events :
               events[j].type = "BatteryChanged"
                   => /\ j < Len(events)
                      /\ events[j + 1].type = "DeviceUpdated"
                      /\ events[j + 1].device.id = events[j].id

\* The level of a tracked device goes from 30 to 15, nothing else changing,
\* in a pass that also has events for the other device.
C5_Witness ==
    /\ Diffed
    /\ \E i \in DOMAIN new_devices :
           /\ OnlyBatteryDiffers(new_devices[i])
           /\ before[new_devices[i].id].battery_level = Some(30)
           /\ new_devices[i].battery_level = Some(15)
           /\ Len(events) > 2

\* C6: an id the registry held before the pass and the scan list lacks
\* yields exactly one DeviceRemoved and no other event for it, and is not in
\* the registry afterwards; an id of the scan list yields no DeviceRemoved.
C6_AbsentDeviceRemovedOnce ==
    Diffed =>
        /\ \A id \in DOMAIN before \ CurrentDeviceIds(new_devices) :
               /\ EventsFor(id) = <<DeviceRemoved(id)>>
               /\ id \notin DOMAIN devices
        /\ \A id \in CurrentDeviceIds(new_devices) :
               EventsOfType(id, "DeviceRemoved") = <<>>

\* One tracked device disappears while the other stays and changes.
C6_Witness ==
    /\ Diffed
    /\ \E id \in DOMAIN before \ CurrentDeviceIds(new_devices) :
           /\ EventsFor(id) = <<DeviceRemoved(id)>>
           /\ Len(events) > 1
           /\ devices # EmptyMap

\* The stored record and the incoming record d agree in name, category,
\* medium, battery level and connection status.
SameReport(d) ==
    /\ d.id \in DOMAIN before
    /\ before[d.id].name = d.name
    /\ before[d.id].device_type = d.device_type
    /\ before[d.id].connection_type = d.connection_type
    /\ before[d.id].battery_level = d.battery_level
    /\ before[d.id].connection_status = d.connection_status

\* C2: a device the sources report in two consecutive passes with the same
\* name, category, medium, battery level and connection status yields no
\* event in the second pass.
C2_UnchangedDeviceNoEvent ==
    Diffed =>
        \A i \in DOMAIN new_devices :
            SameReport(new_devices[i]) => EventsFor(new_devices[i].id) = <<>>

(***************************************************************************)
(* Properties of the gate. In the state a send_notification call leaves    *)
(* (ret.op = "send_notification") the clock, the enabled flag and the      *)
(* suppression duration are those of the call; ret.prev_sent_at is the     *)
(* time of the last Sent outcome for the call's key, ret.prev the send     *)
(* before it.                                                              *)
(***************************************************************************)
SendDone == ret.op = "send_notification"

\* The time since the last Sent outcome for the key of the call.
SinceSent == clock - Unwrap(ret.prev_sent_at)

\* The step is a send_notification call.
SendStep == ret'.op = "send_notification"

\* The step leaves the log with one more record, carrying the call's
\* notification and the given sent flag, the oldest record giving way when
\* the log was full.
LogAppendedOne(sent) ==
    LET old == notification_log
        new == notification_log'
        dropped == Len(old) + 1 - Len(new)
    IN  /\ Len(new) = IF Len(old) < max_log_size THEN Len(old) + 1 ELSE max_log_size
        /\ new[Len(new)] = [timestamp |-> clock,
                            notification_type |-> ret'.notification,
                            sent |-> sent]
        /\ \A i \in 1..(Len(new) - 1) : new[i] = old[i + dropped]

\* C7: with notifications enabled, a send for a key whose last Sent outcome
\* lies less than the suppression duration back is Suppressed and the
\* notifier is not asked; one whose last Sent outcome lies at least the
\* suppression duration back asks the notifier and is Sent when the
\* notifier succeeds; and a call shows a notification exactly when its
\* outcome is Sent.
C7_SentThenSuppressedWithinWindow ==
    /\ (SendDone /\ enabled /\ IsSome(ret.prev_sent_at))
           => /\ SinceSent < suppression_duration
                  => ret.outcome = "Suppressed" /\ ~ret.asked
              /\ SinceSent >= suppression_duration
                  => ret.asked /\ (ret.shown => ret.outcome = "Sent")
    /\ SendDone => (ret.shown <=> ret.outcome = "Sent")

\* The send directly after a Sent one for the same key, one clock unit
\* later and inside a longer window, is Suppressed.
C7_Witness ==
    /\ SendDone /\ enabled
    /\ ret.prev = Some([notification |-> ret.notification, outcome |-> "Sent"])
    /\ IsSome(ret.prev_sent_at)
    /\ SinceSent = 1
    /\ suppression_duration = 2
    /\ ret.outcome = "Suppressed"
    /\ ~ret.shown

\* C8: a send is Suppressed exactly when notifications are enabled and the
\* last Sent outcome for the same device id and the same classification
\* lies less than the suppression duration back; Sent outcomes for another
\* device or another classification have no part in it, and
\* DeviceConnected and DeviceDisconnected are one classification.
C8_SuppressionKeyedByDeviceAndClass ==
    SendDone =>
        (ret.outcome = "Suppressed"
            <=> /\ enabled
                /\ IsSome(ret.prev_sent_at)
                /\ SinceSent < suppression_duration)

\* A connectivity notification for a device is Sent while the low-battery
\* keys of that device and of the other device are inside their windows.
C8_Witness ==
    /\ SendDone
    /\ ret.notification.kind = "DeviceConnected"
    /\ ret.outcome = "Sent"
    /\ \A id \in DeviceIds :
           /\ <<id, "low-battery">> \in DOMAIN hist.sent_at
           /\ clock - hist.sent_at[<<id, "low-battery">>] < suppression_duration

\* C9: while the gate is disabled every send_notification returns Disabled,
\* does not ask the notifier, appends one record with sent = false and
\* leaves both suppression maps as they were.
C9_DisabledRecordsUnsent ==
    [][(SendStep /\ ~enabled)
           => /\ ret'.outcome = "Disabled"
              /\ ~ret'.asked /\ ~ret'.shown
              /\ LogAppendedOne(FALSE)
              /\ UNCHANGED <<last_low_battery_alert, last_connection_alert>>]_vars

\* A disabled send for a key that is inside its suppression window.
C9_Witness ==
    /\ SendDone /\ ~enabled
    /\ ret.outcome = "Disabled"
    /\ IsSome(ret.prev_sent_at)
    /\ SinceSent < suppression_duration
    /\ notification_log[Len(notification_log)].sent = FALSE

\* The suppression timestamp of id in the map `m` is set or moved by the step.
Stamped(m, id) == id \in DOMAIN m' /\ (id \notin DOMAIN m \/ m'[id] # m[id])

\* C10: a send_notification whose notifier fails returns the failure,
\* appends one record with sent = false and leaves both suppression maps as
\* they were; a suppression timestamp is set or moved only by a send with
\* outcome Sent, for that send's key and to the time of that send; and the
\* send after a failed one for the same key, no Sent having come before, is
\* not Suppressed.
C10_FailureLeavesSuppressionAlone ==
    /\ [][(SendStep /\ ret'.asked /\ ~ret'.shown)
              => /\ ret'.outcome = "Failed"
                 /\ LogAppendedOne(FALSE)
                 /\ UNCHANGED <<last_low_battery_alert, last_connection_alert>>]_vars
    /\ [][\A id \in DeviceIds :
              /\ Stamped(last_low_battery_alert, id)
                     => /\ SendStep /\ ret'.outcome = "Sent"
                        /\ KeyOf(ret'.notification) = <<id, "low-battery">>
                        /\ last_low_battery_alert'[id] = clock
              /\ Stamped(last_connection_alert, id)
                     => /\ SendStep /\ ret'.outcome = "Sent"
                        /\ KeyOf(ret'.notification) = <<id, "connectivity-change">>
                        /\ last_connection_alert'[id] = clock]_vars
    /\ []((/\ SendDone
           /\ IsSome(ret.prev)
           /\ ret.prev_sent_at = None
           /\ Unwrap(ret.prev).outcome = "Failed"
           /\ KeyOf(Unwrap(ret.prev).notification) = KeyOf(ret.notification))
              => ret.outcome # "Suppressed")

\* The notifier fails for a key, and the next send for that key, at the
\* same time, is Sent.
C10_Witness ==
    /\ SendDone
    /\ ret.prev = Some([notification |-> ret.notification, outcome |-> "Failed"])
    /\ ret.prev_sent_at = None
    /\ ret.outcome = "Sent"
    /\ ret.notification.kind = "LowBattery"
    /\ ret.notification.device.id \in DOMAIN last_low_battery_alert

(***************************************************************************)
(* Properties of the audit log (SpecLog)                                   *)
(***************************************************************************)
\* The last n records of the sequence s, in order.
LastRecords(s, n) ==
    IF Len(s) <= n THEN s ELSE SubSeq(s, Len(s) - n + 1, Len(s))

\* C11: the audit log never holds more than max_log_size records, and it is
\* the most recent max_log_size records handed to it since the last
\* clear_log, in the order they were handed over; every send_notification
\* hands over exactly one record, whatever its outcome.
C11_LogIsMostRecentRecords ==
    /\ Len(notification_log) <= max_log_size
    /\ notification_log = LastRecords(appended, max_log_size)

\* A send found the log full and evicted the oldest record; the records kept
\* differ, so their order shows.
C11_Witness ==
    /\ SendDone
    /\ Len(appended) > max_log_size
    /\ Len(notification_log) = max_log_size
    /\ notification_log[1] # notification_log[Len(notification_log)]
    /\ appended[1] # notification_log[1]

(***************************************************************************)
(* Properties of scan_all_devices (SpecScanAll)                            *)
(***************************************************************************)
\* The list a source contributes: its devices, none when it failed.
Contribution(result) == IF result.ok THEN result.value ELSE <<>>

\* C12: scan_all_devices returns Ok whatever its sources return; the list is
\* the devices of the Bluetooth source, if it succeeded, followed by those of
\* the peripheral source, if it succeeded, each in its own order; with the
\* Bluetooth source failing and the peripheral source returning two devices
\* it is exactly those two.
C12_ScanAllNeverFails ==
    IsSome(scan_result) =>
        LET result == Unwrap(scan_result)
            bt == Contribution(bluetooth_result)
            peripheral == Contribution(usb_result)
        IN  /\ result.ok
            /\ Len(result.value) = Len(bt) + Len(peripheral)
            /\ \A i \in 1..Len(bt) : result.value[i] = bt[i]
            /\ \A j \in 1..Len(peripheral) : result.value[Len(bt) + j] = peripheral[j]
            /\ (~bluetooth_result.ok /\ usb_result.ok /\ Len(usb_result.value) = 2)
                   => result.value = usb_result.value

\* The Bluetooth source failed, the peripheral source returned two devices,
\* and scan_all_devices has returned.
C12_Witness ==
    /\ IsSome(scan_result)
    /\ ~bluetooth_result.ok
    /\ usb_result.ok
    /\ Len(usb_result.value) = 2
    /\ Len(Unwrap(scan_result).value) = 2

(***************************************************************************)
(* Properties of the scheduler (SpecSched, SpecRestart). A step is a call  *)
(* of start_monitoring or stop_monitoring exactly when it leaves sret      *)
(* naming that call.                                                       *)
(***************************************************************************)
\* The loop task t can still touch the registry or invoke a subscriber: it
\* was not stopped and waits or scans, or it is past the scan of a pass.
LoopExists(t) ==
    \/ tasks[t].pc \in {"select", "scanning"} /\ ~tasks[t].abort
    \/ tasks[t].pc \in {"scanned", "locked", "dispatch", "cb_snapshot", "hung"}

\* The loop task t has ended.
LoopEnded(t) == tasks[t].pc \in {"cancelled", "finished", "panicked"}

\* The step is an invocation of a subscriber by the loop task t.
InvokesBy(t) == Len(tasks'[t].got) > Len(tasks[t].got)

\* The step is the loop task t returning from update_device_list.
DiffBy(t) == tasks[t].pc = "locked" /\ tasks'[t].pc # "locked"

\* C13: start_monitoring while monitoring_task is Some returns
\* MonitorAlreadyRunning, spawns no task, leaves the shutdown channel, the
\* registry and the subscribers as they are; and at any time at most one
\* monitoring loop of the instance exists.
C13_StartWhileRunningRejected ==
    /\ [][(sret'.op = "start_monitoring" /\ IsSome(monitoring_task)) =>
              /\ sret'.result = Err("MonitorAlreadyRunning")
              /\ UNCHANGED <<tasks, shutdown_sender, monitoring_task,
                             callbacks, devices, devices_lock, caller>>]_vars
    /\ [](Cardinality({t \in TaskIds : LoopExists(t)}) <= 1)

\* C14: stop_monitoring on a monitor that has neither a task nor a sender
\* (never started, or stopped already) changes nothing and signals no task;
\* and stopping twice leaves the monitor as stopping once does.
C14_StopIsIdempotent ==
    /\ [][(sret'.op = "stop_monitoring"
              /\ monitoring_task = None /\ shutdown_sender = None) =>
              UNCHANGED <<tasks, shutdown_sender, monitoring_task,
                          callbacks, devices, devices_lock, caller>>]_vars
    /\ [](stop_monitoring(stop_monitoring(Monitor)) = stop_monitoring(Monitor))

\* stop_monitoring has returned on a monitor that was never started and has
\* a subscriber.
C14_Witness ==
    /\ sret.op = "stop_monitoring"
    /\ Spawned = {}
    /\ callbacks # <<>>

\* C15: once stop_monitoring has stopped a running loop, the monitor has no
\* monitoring task again and no further loop is spawned.
C15_StoppedIsTerminal ==
    (\E t \in TaskIds : tasks[t].abort) =>
        /\ monitoring_task = None
        /\ \A t \in TaskIds : ~tasks[t].abort => tasks[t].pc = "unspawned"

\* C16 as claimed: after stop_monitoring has returned for the loop task t,
\* t invokes no subscriber and changes the registry no more.
C16_NoEventsAfterStopReturned ==
    [][\A t \in TaskIds :
          tasks[t].abort => ~InvokesBy(t) /\ ~(DiffBy(t) /\ devices' # devices)]_vars

\* C16 amended: a loop task that has observed the cancellation - dropped at
\* an await, or out of the loop through the shutdown arm - stays ended,
\* invokes no subscriber and does not touch the registry; and a loop task
\* that is suspended in select! once stop_monitoring has returned for it
\* begins no pass: it is dropped there.
C16_NoEventsOnceObserved ==
    [][\A t \in TaskIds :
          /\ LoopEnded(t) =>
                 /\ tasks'[t].pc = tasks[t].pc
                 /\ ~InvokesBy(t)
                 /\ devices_lock' # Some(t)
          /\ (tasks[t].abort /\ tasks[t].pc = "select") =>
                 tasks'[t].pc \in {"select", "cancelled"}]_vars

\* A loop task was dropped at an await after stop_monitoring, having put a
\* device into the registry before.
C16_Witness ==
    \E t \in TaskIds :
        /\ tasks[t].pc = "cancelled"
        /\ tasks[t].abort
        /\ devices # EmptyMap

\* The invocations a pass owes: each event of the pass, in order, to each of
\* the subscribers, in order.
Expected(subscribers, n) ==
    [k \in 1..(n * Len(subscribers)) |->
        <<subscribers[((k - 1) % Len(subscribers)) + 1],
          ((k - 1) \div Len(subscribers)) + 1>>]

\* C17: when a pass is over - of a loop or of refresh_devices - every
\* subscriber that was registered when the diff generated the events has
\* been invoked exactly once for each event, in event order.
C17_EverySubscriberInvoked ==
    /\ \A t \in TaskIds :
           tasks[t].pc = "loop_top" =>
               tasks[t].got = Expected(tasks[t].registered, Len(tasks[t].events))
    /\ caller.pc = "refreshed" =>
           caller.got = Expected(caller.registered, Len(caller.events))

\* C18: a loop whose subscriber does not return or fails goes on: it can
\* take a further step, and when a subscriber hangs on an event the other
\* subscribers of the loop have received that event.
C18_SubscriberCannotStallLoop ==
    \A t \in TaskIds :
        /\ tasks[t].pc \in {"hung", "panicked"} => ENABLED LoopNext(t)
        /\ tasks[t].pc = "hung" =>
               \A j \in 1..Len(tasks[t].callbacks) :
                   \E k \in 1..Len(tasks[t].got) :
                       tasks[t].got[k] = <<tasks[t].callbacks[j], tasks[t].ei>>

\* The positions of a thread inside a scan -> diff -> dispatch cycle.
InCycle == {"scanning", "scanned", "locked", "dispatch", "cb_snapshot"}

\* C19: at most one scan -> diff -> dispatch cycle is in progress on the
\* registry: the loops that were not stopped and the caller's
\* refresh_devices never are inside a cycle at the same time.
C19_OneCycleAtATime ==
    Cardinality({t \in TaskIds : tasks[t].pc \in InCycle /\ ~tasks[t].abort})
        + (IF caller.pc \in InCycle THEN 1 ELSE 0) <= 1

\* The thread that owns the registry lock, and whether it can give it back.
OwnerPc(owner) == IF owner = CallerId THEN caller.pc ELSE tasks[owner].pc

OwnerCanRelease(owner) ==
    IF owner = CallerId
    THEN ENABLED (RefreshDiff \/ GetCurrentDevicesReturn)
    ELSE ENABLED (LoopDiff(owner) \/ LoopCallbackSnapshotReturn(owner))

\* C20: the registry lock is owned only by a thread that is inside
\* update_device_list or inside get_current_devices - never by one that is
\* scanning or between its callbacks - and its owner can always give it
\* back, so a get_current_devices from a callback or from another thread
\* waits for a diff or a copy at most.
C20_LockHeldOnlyInDiffAndSnapshot ==
    IsSome(devices_lock) =>
        /\ OwnerPc(Unwrap(devices_lock)) \in {"locked", "snapshot", "cb_snapshot"}
        /\ OwnerCanRelease(Unwrap(devices_lock))

\* A callback of a loop has the lock inside get_current_devices while the
\* caller's refresh_devices is scanning.
C20_Witness ==
    \E t \in TaskIds :
        /\ tasks[t].pc = "cb_snapshot"
        /\ devices_lock = Some(t)
        /\ caller.pc = "scanning"

(***************************************************************************)
(* C28: the events of a tracked device whose record differs                *)
(***************************************************************************)
\* The incoming record d differs from the stored record of its id.
TrackedAndDiffers(d) == d.id \in DOMAIN before /\ before[d.id] # d

\* C28: for a tracked device whose incoming record differs from the stored
\* one, the pass emits BatteryChanged(id, level) if and only if the battery
\* level differs and the new level is present, and then it comes first:
\* Some(x) to absent gives DeviceUpdated only, absent to Some(x) gives
\* BatteryChanged(id, x) then DeviceUpdated, any other difference with an
\* equal level gives DeviceUpdated only; the stored record becomes the
\* incoming one.
C28_BatteryChangedIffLevelDiffersAndPresent ==
    Diffed =>
        \A i \in DOMAIN new_devices :
            LET d == new_devices[i]
                old == before[d.id]
            IN  TrackedAndDiffers(d) =>
                    /\ EventsFor(d.id) =
                           IF old.battery_level # d.battery_level
                              /\ IsSome(d.battery_level)
                           THEN <<BatteryChanged(d.id, Unwrap(d.battery_level)),
                                  DeviceUpdated(d)>>
                           ELSE <<DeviceUpdated(d)>>
                    /\ devices[d.id] = d

\* A pass in which one tracked device loses its level and the other, which
\* had none, gets one.
C28_Witness ==
    /\ Diffed
    /\ \E i, j \in DOMAIN new_devices :
           LET d == new_devices[i]
               e == new_devices[j]
           IN  /\ TrackedAndDiffers(d)
               /\ TrackedAndDiffers(e)
               /\ IsSome(before[d.id].battery_level) /\ d.battery_level = None
               /\ before[e.id].battery_level = None /\ IsSome(e.battery_level)

(***************************************************************************)
(* C30: stop_monitoring and the tick in progress                           *)
(***************************************************************************)
\* The step ends the loop task t through stop_monitoring: the task is
\* dropped at an await, or leaves the loop by the shutdown arm.
EndsByStop(t) == ~LoopEnded(t) /\ tasks'[t].pc \in {"cancelled", "finished"}

\* C30: a loop that stop_monitoring ends is either dropped while it waits
\* for the timer or is inside scan_all_devices - that tick has produced no
\* event and no invocation - or leaves by the shutdown arm with every event
\* of its last diff delivered to every subscriber of the loop, in order.
C30_StopNeverSplitsTick ==
    [][\A t \in TaskIds :
          EndsByStop(t) =>
              \/ /\ tasks'[t].pc = "cancelled"
                 /\ tasks[t].pc \in {"select", "scanning"}
                 /\ tasks[t].events = <<>>
                 /\ tasks[t].got = <<>>
                 /\ devices' = devices
              \/ /\ tasks'[t].pc = "finished"
                 /\ tasks[t].pc = "loop_top"
                 /\ tasks[t].got =
                        Expected(tasks[t].callbacks, Len(tasks[t].events))]_vars

\* stop_monitoring was called while a tick was past its scan; the tick has
\* delivered its event to both subscribers of the loop, and the loop is about
\* to leave by the shutdown arm.
C30_Witness ==
    \E t \in TaskIds :
        /\ tasks[t].pc = "loop_top"
        /\ tasks[t].signalled
        /\ tasks[t].events # <<>>
        /\ Len(tasks[t].callbacks) = 2
        /\ tasks[t].got = Expected(tasks[t].callbacks, Len(tasks[t].events))
        /\ ENABLED LoopShutdown(t)

(***************************************************************************)
(* C22: the range of the battery levels                                    *)
(***************************************************************************)
\* C22: every battery level the registry stores and every level a
\* BatteryChanged event carries is within 0..100, whatever 8-bit value the
\* capacity file or the Battery1 percentage holds.
C22_BatteryLevelWithinPercent ==
    /\ \A id \in DOMAIN devices :
           IsSome(devices[id].battery_level)
               => Unwrap(devices[id].battery_level) \in 0..100
    /\ \A i \in DOMAIN events :
           events[i].type = "BatteryChanged" => events[i].level \in 0..100

(***************************************************************************)
(* C27, C29: the entries of /sys/class/power_supply in the scan result     *)
(***************************************************************************)
\* The scan of the pass has read a power-supply directory and got an
\* iterator over its entries.
Listed ==
    /\ pc = "scanned"
    /\ sources.read
    /\ sources.power_supply.exists
    /\ sources.power_supply.entries.ok

\* The names the iterator yielded, and the files of the entry `name`.
ListedNames == Yielded(sources.power_supply.entries.value)
FilesOf(name) == sources.power_supply.files[name]

\* The scan result has a device for the power-supply entry `name`.
Reported(name) ==
    \E i \in DOMAIN new_devices : new_devices[i].id = "power_supply_" \o name

\* The entry `name` is a battery whose type and capacity files are readable
\* and whose capacity is a number.
ValidBattery(name) ==
    /\ FilesOf(name).type = Holding("Battery")
    /\ read_capacity(FilesOf(name).capacity).ok
    /\ IsSome(read_capacity(FilesOf(name).capacity).value)

\* C27: whatever entry of the enumeration cannot be extracted - an item of
\* the iterator that is an error, an entry with an unreadable file - every
\* other entry that is a valid battery is in the scan result, the devices of
\* the USB sub-scan are in it, and scan_devices returns Ok.
C27_BadEntrySkipsOnlyItself ==
    Listed =>
        /\ \A name \in ListedNames : ValidBattery(name) => Reported(name)
        /\ \A name \in DOMAIN sources.usb :
               \E i \in DOMAIN new_devices : new_devices[i].id = "usb_" \o name
        /\ scan_devices_appending(PowerSupplyScanOf(sources, now),
                                  UsbHidScanOf(sources, now)).ok

\* The iterator yielded no error.
AllItemsRead ==
    \A i \in DOMAIN sources.power_supply.entries.value :
        sources.power_supply.entries.value[i].ok

\* C29: a power-supply entry of type Battery whose capacity file is missing
\* or holds no number raises no error and is in the scan result, as a device
\* without a battery level.
C29_BatteryWithoutCapacityReported ==
    (Listed /\ AllItemsRead) =>
        \A name \in ListedNames :
            (/\ FilesOf(name).type = Holding("Battery")
             /\ FilesOf(name).capacity \in {NoFile, Holding(NotDigits)})
                => /\ create_power_supply_device_reading(name, FilesOf(name), now).ok
                   /\ \E i \in DOMAIN new_devices :
                          /\ new_devices[i].id = "power_supply_" \o name
                          /\ new_devices[i].battery_level = None

(***************************************************************************)
(* C24: device identity across rescans                                     *)
(***************************************************************************)
\* The ids the sources' own identifiers give: the object paths of the
\* wireless stack, the names of the power-supply entries and of the bus
\* entries, as the scan of the pass read them.
SourceIds ==
    (IF sources.bluez.ok THEN DOMAIN sources.bluez.value ELSE {})
    \cup (IF sources.power_supply.exists /\ sources.power_supply.entries.ok
          THEN {"power_supply_" \o name : name \in ListedNames}
          ELSE {})
    \cup {"usb_" \o name : name \in DOMAIN sources.usb}

\* C24: the id of every scanned device is the one its source identifier
\* gives, whatever the pass; a tracked device whose id is in the scan result
\* again is replaced in place, with no DeviceRemoved and no DeviceAdded for
\* it; a tracked device whose id is absent from the scan result is removed
\* in that pass.
C24_IdentityStableAcrossRescans ==
    (Diffed /\ sources.read) =>
        /\ CurrentDeviceIds(new_devices) \subseteq SourceIds
        /\ \A i \in DOMAIN new_devices :
               LET d == new_devices[i] IN
                   d.id \in DOMAIN before =>
                       /\ EventsOfType(d.id, "DeviceRemoved") = <<>>
                       /\ EventsOfType(d.id, "DeviceAdded") = <<>>
                       /\ devices[d.id] = d
        /\ \A id \in DOMAIN before \ CurrentDeviceIds(new_devices) :
               /\ EventsOfType(id, "DeviceRemoved") = <<DeviceRemoved(id)>>
               /\ id \notin DOMAIN devices

\* The second pass finds the Bluetooth device again, its percentage now
\* read, and the battery BAT0 no more.
C24_Witness ==
    /\ Diffed
    /\ sources.read
    /\ DOMAIN before = {BtId, "power_supply_BAT0"}
    /\ DOMAIN devices = {BtId}
    /\ before[BtId].battery_level = None
    /\ devices[BtId].battery_level = Some(200)

(***************************************************************************)
(* C26: the Bluetooth scanner's connection                                 *)
(***************************************************************************)
\* The step is a call of scan_devices.
BluetoothScanStep == bt_ret'.op = "scan_devices" /\ now' = now + 1

\* C26: scan_devices always returns Ok, with an empty list when no
\* connection could be made or the enumeration failed; a scanner without a
\* connection calls Connection::system() and stores the connection exactly
\* when the call succeeds; a scanner with a connection makes no call, uses
\* the stored connection and keeps it.
C26_ScanNeverFailsConnectionLazy ==
    /\ [](bt_ret.op = "scan_devices" =>
              /\ bt_ret.result.ok
              /\ (~bt_ret.used.ok \/ ~bt_ret.managed_ok) => bt_ret.result.value = <<>>)
    /\ [][BluetoothScanStep =>
              IF connection = None
              THEN /\ bt_ret'.attempted
                   /\ connection' = IF bt_ret'.system.ok
                                    THEN Some(bt_ret'.system.value)
                                    ELSE None
                   /\ bt_ret'.used.ok = bt_ret'.system.ok
              ELSE /\ ~bt_ret'.attempted
                   /\ connection' = connection
                   /\ bt_ret'.used = Ok(Unwrap(connection))]_vars

\* After a first scan that could not connect and a second that did, a third
\* scan has used the connection of the second and found a device.
C26_Witness ==
    /\ now = 3
    /\ connection = Some(1)
    /\ bt_ret.op = "scan_devices"
    /\ ~bt_ret.attempted
    /\ bt_ret.used = Ok(1)
    /\ bt_ret.result.value # <<>>

(***************************************************************************)
(* C21: get_current_devices returns a point-in-time copy                   *)
(***************************************************************************)
\* get_current_devices returns in this step
SnapshotReturned == caller.pc = "snapshot" /\ caller'.pc = "idle"

\* C21: under any interleaving of get_current_devices with the iterations of
\* the diff passes (which follow one another under the registry lock), the
\* list it returned is the registry's contents as they were before the first
\* pass or after a complete pass, never those between two iterations of a
\* pass, and no later step of a pass changes a list already returned.
C21_SnapshotIsPointInTime ==
    /\ [](IsSome(snapshot) => Unwrap(snapshot) \in committed)
    /\ [][(IsSome(snapshot) /\ ~SnapshotReturned) => snapshot' = snapshot]_vars

\* C21 witness: a list was returned that held both devices, and a later pass
\* is between two iterations, the registry already differing both from what
\* it held when the pass began and from the list returned.
C21_Witness ==
    /\ IsSome(snapshot)
    /\ Cardinality(Unwrap(snapshot)) = 2
    /\ pc = "diffing"
    /\ get_current_devices(devices) # get_current_devices(before)
    /\ get_current_devices(devices) # Unwrap(snapshot)
    /\ new_devices # <<>>

(***************************************************************************)
(* C23: the low-battery policy of handle_device_event                      *)
(***************************************************************************)
\* The registry, or the application's map, holding device A at battery 50.
HoldsAHigh == [id \in {BtId} |-> AppDevice(HighLevel)]

\* The low-battery sends among those the handling of an event issued.
LowBatterySends(sends) == SelectSeq(sends, LAMBDA n : n.kind = "LowBattery")

\* Thread t's update_device_list returns in this step.
DiffReturns(t) ==
    app_threads[t].pc = "diffing" /\ app_threads'[t].pc # "diffing"

\* C23: with the registry and the application's map holding A at battery 50,
\* a scan returning A at battery 18 and the threshold at 20, the pass emits
\* BatteryChanged(A, 18) then Updated(A) and the handler issues exactly one
\* low-battery send, for A; and the handling of any BatteryChanged(id, level)
\* issues a low-battery send exactly when level <= threshold.
C23_LowBatterySendIffAtOrBelowThreshold ==
    /\ [][\A t \in AppThreadIds :
              (/\ DiffReturns(t)
               /\ devices = HoldsAHigh
               /\ app_devices = HoldsAHigh
               /\ app_threads[t].new_devices = <<AppDevice(LowLevel)>>)
              => app_threads'[t].events =
                     <<BatteryChanged(BtId, LowLevel), DeviceUpdated(AppDevice(LowLevel))>>]_vars
    /\ []((/\ handled.type = "handled"
           /\ handled.began = Some(HoldsAHigh)
           /\ handled.event = BatteryChanged(BtId, LowLevel)
           /\ config.low_battery_threshold = DefaultThreshold)
          => /\ Len(handled.sends) = 1
             /\ handled.sends[1].kind = "LowBattery"
             /\ handled.sends[1].device.id = BtId)
    /\ []((handled.type = "handled" /\ handled.event.type = "DeviceUpdated")
          => handled.sends = <<>>)
    /\ []((handled.type = "handled" /\ handled.event.type = "BatteryChanged")
          => (LowBatterySends(handled.sends) # <<>>
              <=> handled.event.level <= config.low_battery_threshold))

(***************************************************************************)
(* C25: the locks of scanning and alerting                                 *)
(***************************************************************************)
\* The locks: the registry's StdMutex and the three Mutexes of the application.
LockNames == {"registry", "devices", "config", "notification_manager"}

\* The thread that holds the lock, if one does.
LockOwner(lock) == IF lock = "registry" THEN devices_lock ELSE app_locks[lock]

LocksHeld(t) == {lock \in LockNames : LockOwner(lock) = Some(t)}

\* The lock thread t is about to take, if its next step is to take one.
LockWanted(t) ==
    LET th == app_threads[t] IN
        CASE th.pc = "scanned" -> Some("registry")
          [] th.pc = "dispatching" -> Some("devices")
          [] th.pc = "dispatched" /\ t = CallerId -> Some("devices")
          [] th.pc = "map_done" -> Some(HandlerLocks(Head(th.events))[1])
          [] th.pc = "config_locked" /\ HandlerTest(Head(th.events), config) ->
                 Some(HandlerLocks(Head(th.events))[2])
          [] OTHER -> None

\* t waits for a lock that u holds.
WaitsFor(t, u) ==
    /\ IsSome(LockWanted(t))
    /\ LockOwner(Unwrap(LockWanted(t))) = Some(u)

\* The threads t waits for, directly or through the threads they wait for.
RECURSIVE WaitsForWithin(_, _)
WaitsForWithin(t, n) ==
    IF n = 0 THEN {}
    ELSE LET direct == {u \in AppThreadIds : WaitsFor(t, u)} IN
             direct \cup UNION {WaitsForWithin(u, n - 1) : u \in direct}

CyclicWait ==
    \E t \in AppThreadIds : t \in WaitsForWithin(t, Cardinality(AppThreadIds))

\* C25: under every interleaving of the passes of the monitoring loop and of
\* perform_maintenance with run and update_config, no set of threads waits
\* for locks in a cycle; a thread that holds the registry lock holds no
\* other lock, so the registry lock is never held while the gate's lock is
\* taken; and a thread takes the gate's lock only while it holds the config
\* lock and not the lock of the application's map.
C25_LocksWithoutCyclicWait ==
    /\ ~CyclicWait
    /\ \A t \in AppThreadIds :
           /\ "registry" \in LocksHeld(t) => LocksHeld(t) = {"registry"}
           /\ "notification_manager" \in LocksHeld(t)
                  => LocksHeld(t) = {"config", "notification_manager"}
           /\ "devices" \in LocksHeld(t) => LocksHeld(t) = {"devices"}

\* C25 witness: one thread is inside update_device_list, holding the registry
\* lock, while the other holds the config lock and the gate's lock in the
\* handler.
C25_Witness ==
    \E t, u \in AppThreadIds :
        /\ t # u
        /\ LocksHeld(t) = {"registry"}
        /\ LocksHeld(u) = {"config", "notification_manager"}

(***************************************************************************)
(* C35, C36: the suppression timestamps (SpecGate)                         *)
(***************************************************************************)
\* The suppression timestamp the gate holds for a key, as an Option.
StampOf(key) ==
    IF key[2] = "low-battery" THEN Lookup(last_low_battery_alert, key[1])
    ELSE Lookup(last_connection_alert, key[1])

SuppressionKeys == DeviceIds \X {"low-battery", "connectivity-change"}

\* C35: the suppression timestamp the gate holds for a key is the time of the
\* last Sent outcome for that key since the last clear_log, whatever
\* Suppressed, Disabled or Failed attempts came after it; and a send made at
\* least one suppression duration after the key's last Sent outcome is not
\* Suppressed.
C35_StampIsLastSent ==
    /\ \A key \in SuppressionKeys : StampOf(key) = Lookup(hist.sent_at, key)
    /\ (SendDone /\ IsSome(ret.prev_sent_at) /\ SinceSent >= suppression_duration)
           => ret.outcome # "Suppressed"

\* C35 witness: a send for a key is Sent a full suppression duration after
\* the key's last Sent outcome, the call before it having been a Suppressed
\* attempt for the same key.
C35_Witness ==
    /\ SendDone /\ enabled
    /\ IsSome(ret.prev_sent_at)
    /\ SinceSent = suppression_duration
    /\ ret.prev = Some([notification |-> ret.notification, outcome |-> "Suppressed"])
    /\ ret.outcome = "Sent"

\* The step is a clear_log call.
ClearStep == ret'.op = "clear_log"

\* C36: clear_log empties the log and both suppression maps and leaves the
\* enabled flag, the suppression duration and the log's capacity as they
\* were; the send that follows it is not Suppressed, whatever its key and
\* whenever that key's last Sent outcome was.
C36_ClearLogResetsSuppression ==
    /\ [][ClearStep
              => /\ notification_log' = <<>>
                 /\ last_low_battery_alert' = EmptyMap
                 /\ last_connection_alert' = EmptyMap
                 /\ UNCHANGED <<enabled, suppression_duration, max_log_size>>]_vars
    /\ [][(ret.op = "clear_log" /\ SendStep) => ret'.outcome # "Suppressed"]_vars
    /\ []((SendDone /\ ret.prev_sent_at = None) => ret.outcome # "Suppressed")

\* C36 witness: a notification is Sent for a key whose last Sent outcome was
\* at the same clock time, inside the window, a clear_log having come between.
C36_Witness ==
    /\ SendDone /\ enabled
    /\ ret.wiped_sent_at = Some(clock)
    /\ suppression_duration >= 1
    /\ ret.outcome = "Sent"

(***************************************************************************)
(* C40: the ranges of the configuration's setters and of validate_config   *)
(***************************************************************************)
SetterOps == {"set_polling_interval", "set_low_battery_threshold",
              "set_suppression_minutes"}

\* The configuration `cfg` with the setter's field set to v.
WithField(cfg, op, v) ==
    CASE op = "set_polling_interval" -> [cfg EXCEPT !.polling_interval_seconds = v]
      [] op = "set_low_battery_threshold" -> [cfg EXCEPT !.low_battery_threshold = v]
      [] op = "set_suppression_minutes" -> [cfg EXCEPT !.suppression_minutes = v]

\* The values the setter's field may take.
RangeOf(op) ==
    CASE op = "set_polling_interval" -> 5..300
      [] op = "set_low_battery_threshold" -> 1..99
      [] op = "set_suppression_minutes" -> 1..60

\* C40: a setter called with a value in its range (5..300 seconds, 1..99
\* percent, 1..60 minutes) stores the value in its field, leaves the other
\* fields alone and returns Ok; called with any other value it returns a
\* validation error and leaves the configuration as it was; validate_config
\* returns the validation error exactly when one of the three fields is
\* outside its range.
C40_SettersAcceptExactlyTheirRanges ==
    /\ cfg_ret.op \in SetterOps =>
           IF cfg_ret.value \in RangeOf(cfg_ret.op)
           THEN /\ cfg_ret.result = Ok("()")
                /\ config = WithField(cfg_ret.before, cfg_ret.op, cfg_ret.value)
           ELSE /\ cfg_ret.result = Err("ValidationError")
                /\ config = cfg_ret.before
    /\ cfg_ret.op = "validate_config" =>
           /\ cfg_ret.result = Err("ValidationError")
                  <=> \/ cfg_ret.value.polling_interval_seconds \notin 5..300
                      \/ cfg_ret.value.low_battery_threshold \notin 1..99
                      \/ cfg_ret.value.suppression_minutes \notin 1..60
           /\ cfg_ret.result.ok \/ cfg_ret.result = Err("ValidationError")

\* C40 witness: set_suppression_minutes(61) is rejected and leaves the 60
\* minutes an earlier call stored, the polling interval standing at 300.
C40_Witness ==
    /\ cfg_ret.op = "set_suppression_minutes"
    /\ cfg_ret.value = 61
    /\ cfg_ret.result = Err("ValidationError")
    /\ config.suppression_minutes = 60
    /\ config.polling_interval_seconds = 300

(***************************************************************************)
(* C39: the ids of one scan list                                           *)
(***************************************************************************)
\* The positions of the list that hold the id.
PositionsOf(list, id) == {i \in DOMAIN list : list[i].id = id}

\* The events of the pass of the given type about the id.
PassEventsAbout(id, type) ==
    {i \in DOMAIN events : events[i].type = type /\ events[i].device.id = id}

InAppCycle(t) ==
    app_threads[t].pc \in {"scanned", "diffing", "dispatching", "map_locked",
                           "map_done", "config_locked", "manager_locked"}

\* C31: whenever neither the monitoring loop nor perform_maintenance is in a
\* scan, diff and dispatch cycle, the application's map holds the ids and
\* the records the registry holds.
C31_AppMapEqualsRegistryBetweenCycles ==
    (\A t \in AppThreadIds : ~InAppCycle(t)) => app_devices = devices

(***************************************************************************)
(* C32: the record a LowBattery notification carries                       *)
(***************************************************************************)
\* C32: the device record of a LowBattery notification has the battery
\* level of the BatteryChanged event the handler sent it for.
C32_LowBatteryRecordHasTheEventLevel ==
    (handled.type = "handled" /\ handled.event.type = "BatteryChanged") =>
        \A i \in DOMAIN handled.sends :
            handled.sends[i].kind = "LowBattery" =>
                handled.sends[i].device.battery_level = Some(handled.event.level)

(***************************************************************************)
(* C33: where low-battery sends come from                                  *)
(***************************************************************************)
\* The BatteryChanged events among the events.
BatteryChangedAmong(evs) == SelectSeq(evs, LAMBDA e : e.type = "BatteryChanged")

\* C33: the handling of an event issues a low-battery send only if the event
\* is BatteryChanged, the handling of DeviceAdded issues none whatever the
\* level of the device, and update_device_list emits BatteryChanged(id, level)
\* only for an id the registry held before with another level - not for a
\* device the pass adds, and not for a device whose level is the one the
\* registry holds.
C33_LowBatterySendsOnlyFromBatteryChanged ==
    /\ []((handled.type = "handled" /\ LowBatterySends(handled.sends) # <<>>)
          => handled.event.type = "BatteryChanged")
    /\ [][\A t \in AppThreadIds :
              DiffReturns(t) =>
                  LET changed == BatteryChangedAmong(app_threads'[t].events) IN
                      \A i \in DOMAIN changed :
                          /\ changed[i].id \in DOMAIN devices
                          /\ devices[changed[i].id].battery_level
                                 # Some(changed[i].level)]_vars

\* C33 witness: with the threshold at 20, the handling of DeviceAdded for a
\* device at battery 18 has ended with the DeviceConnected send alone.
C33_Witness ==
    /\ handled.type = "handled"
    /\ handled.event = DeviceAdded(AppDevice(LowLevel))
    /\ config.low_battery_threshold = DefaultThreshold
    /\ LowLevel <= config.low_battery_threshold
    /\ Len(handled.sends) = 1
    /\ handled.sends[1].kind = "DeviceConnected"

(***************************************************************************)
(* C37: is_running after run has returned an error                         *)
(***************************************************************************)
\* C37: when run has returned the error of start_monitoring the application
\* is not running - is_running is false - and no call of run is rejected
\* with AlreadyRunning.
C37_RunErrorLeavesNotRunning ==
    /\ (app_ret.op = "run" /\ app_ret.result = Err("MonitorAlreadyRunning"))
           => ~is_running
    /\ ~(app_ret.op = "run" /\ app_ret.result = Err("AlreadyRunning"))

(***************************************************************************)
(* C34: the gate of the handler after update_config                        *)
(***************************************************************************)
\* C34: once update_config(new_config) has returned, a notification for an
\* event of the monitoring loop it started goes through a gate that holds
\* new_config's enabled flag and suppression duration (the gate answers
\* Disabled exactly when its flag is false and suppresses by its duration).
C34_HandlerGateFollowsUpdateConfig ==
    (/\ handled.type = "handled"
     /\ handled.sends # <<>>
     /\ app_ret.op = "update_config"
     /\ current_loop = Some(handled.thread))
        => /\ handled.gate.enabled = app_ret.new_config.enabled
           /\ handled.gate.suppression_duration
                  = suppression_duration_of(app_ret.new_config)

(***************************************************************************)
(* C38: the callbacks the loop refers to and their owner                   *)
(***************************************************************************)
\* Task t invokes a callback in this step.
InvokesCallback(t) ==
    /\ tasks[t].pc = "dispatch"
    /\ tasks'[t] # tasks[t]
    /\ tasks'[t].pc # "cb_snapshot"

\* C38: no monitoring loop invokes a callback once the LinuxDeviceMonitor
\* that owns the callbacks has been dropped.
C38_NoCallbackAfterOwnerDropped ==
    [][\A t \in TaskIds : InvokesCallback(t) => caller.pc # "dropped"]_vars

====
